---- MODULE Spec2Model ----
(***************************************************************************)
(* Model of the Ondo hardware-telemetry daemon (src/src-lhm/Program.cs).   *)
(*                                                                         *)
(* Part 1 models the process: Main's mode dispatch, RunOnce, RunDebug and  *)
(* RunDaemon with its three execution contexts (the primary loop, the      *)
(* stdin watcher task and the CancelKeyPress handler).                     *)
(* Part 2 models the extractors as operators over sensor readings whose    *)
(* names are sequences of characters, so that Contains / Replace / Split / *)
(* TryParse / Regex.Match are computed the way the code computes them.     *)
(***************************************************************************)
EXTENDS Integers, Sequences, FiniteSets, TLC

VARIABLES
    mode,               \* args[0] as seen by Main: "once", "debug" or "daemon"
    mainpc,             \* position of the primary context
    computer,           \* the sensor-tree handle: "null", "created", "open", "closed"
    handlerRegistered,  \* Console.CancelKeyPress has the shutdown handler
    stdinOpen,          \* the parent still holds the daemon's standard input open
    stdinpc,            \* position of the Task.Run stdin watcher
    hpc,                \* position of each CancelKeyPress handler invocation
    terminated,         \* the process has exited
    exitCode,           \* its exit code (meaningful once terminated)
    exitBy,             \* which context ended the process
    out,                \* lines written to standard output, each [kind, cycle]
    cycle,              \* number of the current daemon loop iteration (0 before the loop)
    failedCycles,       \* iterations in which the try block raised
    sleeps,             \* completed Thread.Sleep calls
    closeCalls,         \* invocations of Computer.Close
    closeEffective,     \* invocations that found the handle open and released it
    usedClosed,         \* the primary context refreshed or read a closed handle
    refreshed,          \* hardware nodes whose Update() has run in the current cycle
    staleRead,          \* an extractor read a node not refreshed in the same cycle
    hwIn,               \* input of the extractor under check (a node or a tree)
    res                 \* its result

procVars == <<mode, mainpc, computer, handlerRegistered, stdinOpen, stdinpc, hpc,
              terminated, exitCode, exitBy, out, cycle, failedCycles, sleeps,
              closeCalls, closeEffective, usedClosed, refreshed, staleRead>>
funVars == <<hwIn, res>>
vars == <<mode, mainpc, computer, handlerRegistered, stdinOpen, stdinpc, hpc,
          terminated, exitCode, exitBy, out, cycle, failedCycles, sleeps,
          closeCalls, closeEffective, usedClosed, refreshed, staleRead, hwIn, res>>

\* Bounds of the model.
MaxCycles == 3
MaxInterrupts == 1

Modes == {"once", "debug", "daemon"}
Interrupts == 1..MaxInterrupts

(***************************************************************************)
(* Part 1: the process                                                     *)
(***************************************************************************)

ProcInit ==
    /\ mode \in Modes
    /\ mainpc = "main"
    /\ computer = "null"
    /\ handlerRegistered = FALSE
    /\ stdinOpen = TRUE
    /\ stdinpc = "none"
    /\ hpc = [i \in Interrupts |-> "none"]
    /\ terminated = FALSE
    /\ exitCode = 0
    /\ exitBy = "none"
    /\ out = <<>>
    /\ cycle = 0
    /\ failedCycles = {}
    /\ sleeps = 0
    /\ closeCalls = 0
    /\ closeEffective = 0
    /\ usedClosed = FALSE
    /\ refreshed = {}
    /\ staleRead = FALSE

\* Console.WriteLine of one record.
WriteLine(kind) == Append(out, [kind |-> kind, cycle |-> cycle])

\* Environment.Exit(code), or Main returning (code 0).
Exit(code, by) ==
    /\ terminated' = TRUE
    /\ exitCode' = code
    /\ exitBy' = by

NoExit == UNCHANGED <<terminated, exitCode, exitBy>>

\* Computer.Close(): releases the backend if the handle is open, otherwise a no-op.
Close ==
    /\ closeCalls' = closeCalls + 1
    /\ computer' = IF computer \in {"open", "created"} THEN "closed" ELSE computer
    /\ closeEffective' = IF computer = "open" THEN closeEffective + 1 ELSE closeEffective

\* The sensor tree as far as refreshing goes: under each root node of the four
\* extracted types a chain of sub-nodes; a node is <<type of its root, depth>>.
MaxDepth == 4
RootTypes == {"Cpu", "Gpu", "Motherboard", "Storage"}
TreeNodes == RootTypes \X (1..MaxDepth)
DepthOf(n) == n[2]

\* computer.Accept(new UpdateVisitor()): VisitHardware updates the node and
\* hands the visitor on to each of its sub-nodes.
VisitorRefreshed == TreeNodes

\* Mutant: the loop updates the root nodes only.
LoopRefreshedRootsOnly == {n \in TreeNodes : DepthOf(n) = 1}

\* foreach (hardware) { hardware.Update(); foreach (subHardware) subHardware.Update(); }
LoopRefreshed == {n \in TreeNodes : DepthOf(n) <= 2}

\* Mutant: the extractors update nothing themselves.
ExtractorRefreshedNothing == {}

\* The Update() calls the extractors make themselves: ExtractMotherboardData on
\* the sub-nodes and their sub-nodes, ExtractStorageData on the sub-nodes.
ExtractorRefreshed ==
    {n \in TreeNodes : \/ n[1] = "Motherboard" /\ DepthOf(n) \in {2, 3}
                       \/ n[1] = "Storage" /\ DepthOf(n) = 2}

\* The nodes whose Sensors the extractors enumerate.
ExtractorReads ==
    {n \in TreeNodes : \/ DepthOf(n) = 1
                       \/ n[1] = "Motherboard" /\ DepthOf(n) \in {2, 3}
                       \/ n[1] = "Storage" /\ DepthOf(n) = 2}

\* Main: dispatch on args[0].
MainDispatch ==
    /\ ~terminated /\ mainpc = "main"
    /\ mainpc' = CASE mode = "debug" -> "g_open"
                   [] mode = "daemon" -> "d_open"
                   [] OTHER -> "o_open"
    /\ UNCHANGED <<hwIn, res, refreshed, staleRead, mode, computer, handlerRegistered, stdinOpen, stdinpc, hpc, out,
                   cycle, failedCycles, sleeps, closeCalls, closeEffective, usedClosed>>
    /\ NoExit

---------------------------------------------------------------------------
\* RunOnce

\* What CreateComputer(); Open(); Accept(new UpdateVisitor()) can come to: Open
\* raises (the handle exists but is not open), Accept raises on the open handle,
\* or both succeed.
OpenOutcomes == {"ok", "open_fails", "refresh_fails"}

\* CreateComputer(); computer.Open(); computer.Accept(new UpdateVisitor())
OnceOpen ==
    /\ ~terminated /\ mainpc = "o_open"
    /\ \E o \in OpenOutcomes :
         /\ computer' = IF o = "open_fails" THEN "created" ELSE "open"
         /\ refreshed' = IF o = "ok" THEN VisitorRefreshed ELSE refreshed
         /\ mainpc' = IF o = "ok" THEN "o_extract" ELSE "o_catch"
    /\ UNCHANGED <<hwIn, res, staleRead, mode, handlerRegistered, stdinOpen, stdinpc, hpc, out,
                   cycle, failedCycles, sleeps, closeCalls, closeEffective, usedClosed>>
    /\ NoExit

\* var data = ExtractData(computer); OutputJson(data);
OnceExtractOutput ==
    /\ ~terminated /\ mainpc = "o_extract"
    /\ \E ok \in BOOLEAN :
         /\ out' = IF ok THEN WriteLine("snapshot") ELSE out
         /\ mainpc' = IF ok THEN "o_finally" ELSE "o_catch"
    /\ UNCHANGED <<hwIn, res, refreshed, staleRead, mode, computer, handlerRegistered, stdinOpen, stdinpc, hpc,
                   cycle, failedCycles, sleeps, closeCalls, closeEffective, usedClosed>>
    /\ NoExit

\* Mutant: the catch block reports the error and exits with code 0.
OnceCatchBodyExitsZero ==
    /\ out' = WriteLine("error")
    /\ mainpc' = "exited"
    /\ Exit(0, "main")

OnceCatchBody ==
    /\ out' = WriteLine("error")
    /\ mainpc' = "exited"
    /\ Exit(1, "main")

\* catch: OutputError(ex.Message); Environment.Exit(1) -- the process ends inside
\* the catch block, so the finally block is not reached on this path.
OnceCatch ==
    /\ ~terminated /\ mainpc = "o_catch"
    /\ OnceCatchBody
    /\ UNCHANGED <<hwIn, res, refreshed, staleRead, mode, computer, handlerRegistered, stdinOpen, stdinpc, hpc,
                   cycle, failedCycles, sleeps, closeCalls, closeEffective, usedClosed>>

\* finally: computer?.Close(); then Main returns.
OnceFinally ==
    /\ ~terminated /\ mainpc = "o_finally"
    /\ Close
    /\ mainpc' = "exited"
    /\ Exit(0, "main")
    /\ UNCHANGED <<hwIn, res, refreshed, staleRead, mode, handlerRegistered, stdinOpen, stdinpc, hpc, out,
                   cycle, failedCycles, sleeps, usedClosed>>

---------------------------------------------------------------------------
\* RunDebug

\* CreateComputer(); computer.Open(); computer.Accept(new UpdateVisitor())
DebugOpen ==
    /\ ~terminated /\ mainpc = "g_open"
    /\ \E o \in OpenOutcomes :
         /\ computer' = IF o = "open_fails" THEN "created" ELSE "open"
         /\ refreshed' = IF o = "ok" THEN VisitorRefreshed ELSE refreshed
         /\ mainpc' = IF o = "ok" THEN "g_dump" ELSE "g_catch"
    /\ UNCHANGED <<hwIn, res, staleRead, mode, handlerRegistered, stdinOpen, stdinpc, hpc, out,
                   cycle, failedCycles, sleeps, closeCalls, closeEffective, usedClosed>>
    /\ NoExit

\* The dump of every raw reading; subHardware.Update() may raise part-way, after
\* the header has been written.
DebugDump ==
    /\ ~terminated /\ mainpc = "g_dump"
    /\ out' = WriteLine("dump")
    /\ \E ok \in BOOLEAN : mainpc' = IF ok THEN "g_finally" ELSE "g_catch"
    /\ UNCHANGED <<hwIn, res, refreshed, staleRead, mode, computer, handlerRegistered, stdinOpen, stdinpc, hpc,
                   cycle, failedCycles, sleeps, closeCalls, closeEffective, usedClosed>>
    /\ NoExit

\* catch: Console.WriteLine($"Error: ..."); Environment.Exit(1)
DebugCatch ==
    /\ ~terminated /\ mainpc = "g_catch"
    /\ out' = WriteLine("errortext")
    /\ mainpc' = "exited"
    /\ Exit(1, "main")
    /\ UNCHANGED <<hwIn, res, refreshed, staleRead, mode, computer, handlerRegistered, stdinOpen, stdinpc, hpc,
                   cycle, failedCycles, sleeps, closeCalls, closeEffective, usedClosed>>

\* finally: computer?.Close(); then Main returns.
DebugFinally ==
    /\ ~terminated /\ mainpc = "g_finally"
    /\ Close
    /\ mainpc' = "exited"
    /\ Exit(0, "main")
    /\ UNCHANGED <<hwIn, res, refreshed, staleRead, mode, handlerRegistered, stdinOpen, stdinpc, hpc, out,
                   cycle, failedCycles, sleeps, usedClosed>>

---------------------------------------------------------------------------
\* RunDaemon, primary context

\* _computer = CreateComputer(); _computer.Open(); _visitor = new UpdateVisitor();
DaemonOpen ==
    /\ ~terminated /\ mainpc = "d_open"
    /\ \E ok \in BOOLEAN :
         /\ computer' = IF ok THEN "open" ELSE "created"
         /\ mainpc' = IF ok THEN "d_register" ELSE "d_fatal"
    /\ UNCHANGED <<hwIn, res, refreshed, staleRead, mode, handlerRegistered, stdinOpen, stdinpc, hpc, out,
                   cycle, failedCycles, sleeps, closeCalls, closeEffective, usedClosed>>
    /\ NoExit

\* Console.CancelKeyPress += ...
DaemonRegister ==
    /\ ~terminated /\ mainpc = "d_register"
    /\ handlerRegistered' = TRUE
    /\ mainpc' = "d_spawn"
    /\ UNCHANGED <<hwIn, res, refreshed, staleRead, mode, computer, stdinOpen, stdinpc, hpc, out,
                   cycle, failedCycles, sleeps, closeCalls, closeEffective, usedClosed>>
    /\ NoExit

\* _ = Task.Run(...); then the loop is entered.
DaemonSpawn ==
    /\ ~terminated /\ mainpc = "d_spawn"
    /\ stdinpc' = "read"
    /\ mainpc' = "d_refresh"
    /\ cycle' = 1
    /\ UNCHANGED <<hwIn, res, refreshed, staleRead, mode, computer, handlerRegistered, stdinOpen, hpc, out,
                   failedCycles, sleeps, closeCalls, closeEffective, usedClosed>>
    /\ NoExit

\* try { foreach hardware: Update(); foreach subHardware: Update(); ...
\* A backend call may raise; on a handle another context has closed the outcome
\* is whatever the backend does with a closed tree.
DaemonRefresh ==
    /\ ~terminated /\ mainpc = "d_refresh"
    /\ usedClosed' = (usedClosed \/ computer = "closed")
    /\ \E ok \in BOOLEAN :
         /\ mainpc' = IF ok THEN "d_extract" ELSE "d_catch"
         /\ refreshed' = IF ok THEN LoopRefreshed ELSE refreshed
         /\ failedCycles' = IF ok THEN failedCycles ELSE failedCycles \cup {cycle}
    /\ UNCHANGED <<hwIn, res, staleRead, mode, computer, handlerRegistered, stdinOpen, stdinpc, hpc, out,
                   cycle, sleeps, closeCalls, closeEffective>>
    /\ NoExit

\* ... var data = ExtractData(_computer); ...
DaemonExtract ==
    /\ ~terminated /\ mainpc = "d_extract"
    /\ usedClosed' = (usedClosed \/ computer = "closed")
    /\ \E ok \in BOOLEAN :
         /\ mainpc' = IF ok THEN "d_output" ELSE "d_catch"
         /\ refreshed' = IF ok THEN refreshed \cup ExtractorRefreshed ELSE refreshed
         /\ staleRead' = (staleRead \/
                (ok /\ ~(ExtractorReads \subseteq refreshed \cup ExtractorRefreshed)))
         /\ failedCycles' = IF ok THEN failedCycles ELSE failedCycles \cup {cycle}
    /\ UNCHANGED <<hwIn, res, mode, computer, handlerRegistered, stdinOpen, stdinpc, hpc, out,
                   cycle, sleeps, closeCalls, closeEffective>>
    /\ NoExit

\* Mutant: the snapshot line is written before the failure is raised.
DaemonOutputJsonWritesThenFails ==
    /\ ~terminated /\ mainpc = "d_output"
    /\ \E ok \in BOOLEAN :
         /\ out' = WriteLine("snapshot")
         /\ mainpc' = IF ok THEN "d_sleep" ELSE "d_catch"
         /\ failedCycles' = IF ok THEN failedCycles ELSE failedCycles \cup {cycle}
    /\ UNCHANGED <<hwIn, res, refreshed, staleRead, mode, computer, handlerRegistered, stdinOpen, stdinpc, hpc,
                   cycle, sleeps, closeCalls, closeEffective, usedClosed>>
    /\ NoExit

\* ... OutputJson(data); }  JsonSerializer.Serialize raises before anything is
\* written (a non-finite float), otherwise one line is written.
DaemonOutputJson ==
    /\ ~terminated /\ mainpc = "d_output"
    /\ \E ok \in BOOLEAN :
         /\ out' = IF ok THEN WriteLine("snapshot") ELSE out
         /\ mainpc' = IF ok THEN "d_sleep" ELSE "d_catch"
         /\ failedCycles' = IF ok THEN failedCycles ELSE failedCycles \cup {cycle}
    /\ UNCHANGED <<hwIn, res, refreshed, staleRead, mode, computer, handlerRegistered, stdinOpen, stdinpc, hpc,
                   cycle, sleeps, closeCalls, closeEffective, usedClosed>>
    /\ NoExit

\* Mutant: the per-cycle catch reports the error and ends the process.
DaemonCatchExits ==
    /\ out' = WriteLine("error")
    /\ mainpc' = "exited"
    /\ Exit(1, "main")

\* Mutant: the per-cycle catch swallows the failure without writing a line.
DaemonCatchSilent ==
    /\ out' = out
    /\ mainpc' = "d_sleep"
    /\ NoExit

\* catch (Exception ex) { OutputError(ex.Message); }
DaemonCatchBody ==
    /\ out' = WriteLine("error")
    /\ mainpc' = "d_sleep"
    /\ NoExit

DaemonCatch ==
    /\ ~terminated /\ mainpc = "d_catch"
    /\ DaemonCatchBody
    /\ UNCHANGED <<hwIn, res, refreshed, staleRead, mode, computer, handlerRegistered, stdinOpen, stdinpc, hpc,
                   cycle, failedCycles, sleeps, closeCalls, closeEffective, usedClosed>>

\* Mutant: Thread.Sleep never returns to the loop.
DaemonSleepBodyNeverReturns ==
    /\ refreshed' = refreshed
    /\ sleeps' = sleeps
    /\ cycle' = cycle
    /\ mainpc' = "d_sleep"

\* Mutant: the next iteration begins without a sleep.
DaemonSleepBodySkipsSleep ==
    /\ refreshed' = {}
    /\ sleeps' = sleeps
    /\ cycle' = cycle + 1
    /\ mainpc' = "d_refresh"

\* Thread.Sleep(intervalMs); then the next iteration of while (true).
DaemonSleepBody ==
    /\ refreshed' = {}
    /\ sleeps' = sleeps + 1
    /\ cycle' = cycle + 1
    /\ mainpc' = "d_refresh"

DaemonSleep ==
    /\ ~terminated /\ mainpc = "d_sleep"
    /\ cycle < MaxCycles
    /\ DaemonSleepBody
    /\ UNCHANGED <<hwIn, res, staleRead, mode, computer, handlerRegistered, stdinOpen, stdinpc, hpc, out,
                   failedCycles, closeCalls, closeEffective, usedClosed>>
    /\ NoExit

\* Mutant: the outer catch reports the error and tries the open once more.
DaemonFatalBodyRetries ==
    /\ out' = WriteLine("error")
    /\ IF out = <<>>
       THEN mainpc' = "d_open" /\ NoExit
       ELSE mainpc' = "exited" /\ Exit(1, "main")

DaemonFatalBody ==
    /\ out' = WriteLine("error")
    /\ mainpc' = "exited"
    /\ Exit(1, "main")

\* outer catch: OutputError(ex.Message); Environment.Exit(1)
DaemonFatal ==
    /\ ~terminated /\ mainpc = "d_fatal"
    /\ DaemonFatalBody
    /\ UNCHANGED <<hwIn, res, refreshed, staleRead, mode, computer, handlerRegistered, stdinOpen, stdinpc, hpc,
                   cycle, failedCycles, sleeps, closeCalls, closeEffective, usedClosed>>

---------------------------------------------------------------------------
\* RunDaemon, the stdin watcher task

\* The parent closes its end of the pipe (or exits).
ParentClosesStdin ==
    /\ ~terminated /\ stdinOpen
    /\ stdinOpen' = FALSE
    /\ UNCHANGED <<hwIn, res, refreshed, staleRead, mode, mainpc, computer, handlerRegistered, stdinpc, hpc, out,
                   cycle, failedCycles, sleeps, closeCalls, closeEffective, usedClosed>>
    /\ NoExit

\* while (Console.Read() != -1) { }  leaves the loop at end-of-stream.
StdinReadSeesEof == ~stdinOpen

StdinRead ==
    /\ ~terminated /\ stdinpc = "read"
    /\ StdinReadSeesEof
    /\ stdinpc' = "close"
    /\ UNCHANGED <<hwIn, res, refreshed, staleRead, mode, mainpc, computer, handlerRegistered, stdinOpen, hpc, out,
                   cycle, failedCycles, sleeps, closeCalls, closeEffective, usedClosed>>
    /\ NoExit

\* Mutant: the stdin watcher exits without closing the handle.
StdinCloseSkipped ==
    /\ UNCHANGED <<closeCalls, computer, closeEffective>>
    /\ stdinpc' = "exit"

\* _computer?.Close();
StdinCloseBody ==
    /\ Close
    /\ stdinpc' = "exit"

StdinClose ==
    /\ ~terminated /\ stdinpc = "close"
    /\ StdinCloseBody
    /\ UNCHANGED <<hwIn, res, refreshed, staleRead, mode, mainpc, handlerRegistered, stdinOpen, hpc, out,
                   cycle, failedCycles, sleeps, usedClosed>>
    /\ NoExit

\* Environment.Exit(0);
StdinExit ==
    /\ ~terminated /\ stdinpc = "exit"
    /\ stdinpc' = "done"
    /\ Exit(0, "stdin")
    /\ UNCHANGED <<hwIn, res, refreshed, staleRead, mode, mainpc, computer, handlerRegistered, stdinOpen, hpc, out,
                   cycle, failedCycles, sleeps, closeCalls, closeEffective, usedClosed>>

---------------------------------------------------------------------------
\* RunDaemon, the CancelKeyPress handler

\* An interrupt is delivered; the registered handler starts (e.Cancel = true).
\* Interrupts before the handler is registered are the platform's business and
\* are not modelled.
Interrupt(i) ==
    /\ ~terminated /\ handlerRegistered
    /\ hpc[i] = "none"
    /\ \A j \in Interrupts : j < i => hpc[j] # "none"
    /\ hpc' = [hpc EXCEPT ![i] = "close"]
    /\ UNCHANGED <<hwIn, res, refreshed, staleRead, mode, mainpc, computer, handlerRegistered, stdinOpen, stdinpc, out,
                   cycle, failedCycles, sleeps, closeCalls, closeEffective, usedClosed>>
    /\ NoExit

\* Mutant: the handler exits without closing the handle.
HandlerCloseSkipped(i) ==
    /\ ~terminated /\ hpc[i] = "close"
    /\ UNCHANGED <<closeCalls, computer, closeEffective>>
    /\ hpc' = [hpc EXCEPT ![i] = "exit"]
    /\ UNCHANGED <<hwIn, res, refreshed, staleRead, mode, mainpc, handlerRegistered, stdinOpen, stdinpc, out,
                   cycle, failedCycles, sleeps, usedClosed>>
    /\ NoExit

\* _computer?.Close();
HandlerClose(i) ==
    /\ ~terminated /\ hpc[i] = "close"
    /\ Close
    /\ hpc' = [hpc EXCEPT ![i] = "exit"]
    /\ UNCHANGED <<hwIn, res, refreshed, staleRead, mode, mainpc, handlerRegistered, stdinOpen, stdinpc, out,
                   cycle, failedCycles, sleeps, usedClosed>>
    /\ NoExit

\* Environment.Exit(0);
HandlerExit(i) ==
    /\ ~terminated /\ hpc[i] = "exit"
    /\ hpc' = [hpc EXCEPT ![i] = "done"]
    /\ Exit(0, "interrupt")
    /\ UNCHANGED <<hwIn, res, refreshed, staleRead, mode, mainpc, computer, handlerRegistered, stdinOpen, stdinpc, out,
                   cycle, failedCycles, sleeps, closeCalls, closeEffective, usedClosed>>

---------------------------------------------------------------------------

Init ==
    /\ ProcInit
    /\ hwIn = <<>>
    /\ res = <<>>

StdinTask == StdinRead \/ StdinClose \/ StdinExit
Handler == \E i \in Interrupts : HandlerClose(i) \/ HandlerExit(i)

Next ==
    \/ MainDispatch
    \/ OnceOpen
    \/ OnceExtractOutput
    \/ OnceCatch
    \/ OnceFinally
    \/ DebugOpen
    \/ DebugDump
    \/ DebugCatch
    \/ DebugFinally
    \/ DaemonOpen
    \/ DaemonRegister
    \/ DaemonSpawn
    \/ DaemonRefresh
    \/ DaemonExtract
    \/ DaemonOutputJson
    \/ DaemonCatch
    \/ DaemonSleep
    \/ DaemonFatal
    \/ ParentClosesStdin
    \/ StdinRead
    \/ StdinClose
    \/ StdinExit
    \/ \E i \in Interrupts : Interrupt(i)
    \/ \E i \in Interrupts : HandlerClose(i)
    \/ \E i \in Interrupts : HandlerExit(i)

Spec == Init /\ [][Next]_vars

\* The thread pool runs the stdin watcher and the runtime runs a started handler;
\* nothing is assumed about the progress of the primary loop.
FairSpec ==
    /\ Spec
    /\ WF_vars(StdinTask)
    /\ WF_vars(Handler)

\* The primary thread of RunDaemon / RunOnce / RunDebug.
MainThread ==
    \/ MainDispatch
    \/ OnceOpen \/ OnceExtractOutput \/ OnceCatch \/ OnceFinally
    \/ DebugOpen \/ DebugDump \/ DebugCatch \/ DebugFinally
    \/ DaemonOpen \/ DaemonRegister \/ DaemonSpawn
    \/ DaemonRefresh \/ DaemonExtract \/ DaemonOutputJson
    \/ DaemonCatch \/ DaemonSleep \/ DaemonFatal

\* The primary thread keeps running and Thread.Sleep returns; nothing is assumed
\* about whether or when a shutdown trigger fires.
LoopSpec == Spec /\ WF_vars(MainThread)


(***************************************************************************)
(* Properties of the process                                               *)
(***************************************************************************)

Triggers == {"stdin", "interrupt"}

\* The daemon has entered its loop (handler registered, stdin watcher started).
Running == mode = "daemon" /\ stdinpc # "none" /\ ~terminated

\* The primary context is inside the try block of an iteration it has begun.
MidCycle == mainpc \in {"d_extract", "d_output", "d_catch"}

\* Iteration n has begun / has run to its end.
Started(n) == n < cycle \/ (n = cycle /\ (MidCycle \/ mainpc = "d_sleep"))
Completed(n) == n < cycle \/ (n = cycle /\ mainpc = "d_sleep")

IsOfCycle(n, l) == l.cycle = n
RECURSIVE KindsOf(_, _)
KindsOf(n, lines) ==
    IF lines = <<>> THEN <<>>
    ELSE IF IsOfCycle(n, Head(lines))
         THEN <<Head(lines).kind>> \o KindsOf(n, Tail(lines))
         ELSE KindsOf(n, Tail(lines))

\* The kinds of the lines written during iteration n, in order.
LinesOf(n) == KindsOf(n, out)

StdinFired == stdinpc \in {"close", "exit", "done"}
InterruptFired == \E i \in Interrupts : hpc[i] # "none"
Firings == Cardinality({i \in Interrupts : hpc[i] # "none"}) + (IF StdinFired THEN 1 ELSE 0)

\* C1: in daemon mode an iteration whose try block raised has written exactly
\* one error line and nothing else, an iteration that did not raise has written
\* exactly one snapshot line, no failure ends the process (once the loop is
\* entered only a shutdown trigger does, with code 0), every iteration after
\* the first was entered through one sleep following the previous one, and a
\* failed iteration is followed by the next iteration unless a shutdown trigger
\* ends the process first.
C1_FailedCycleOneErrorLineLoopContinues ==
    /\ [](mode = "daemon" =>
            /\ \A n \in 1..cycle :
                   Completed(n) =>
                       LinesOf(n) = IF n \in failedCycles THEN <<"error">>
                                                           ELSE <<"snapshot">>
            /\ (terminated /\ cycle >= 1) => (exitBy \in Triggers /\ exitCode = 0)
            /\ (mainpc = "d_catch" => cycle \in failedCycles)
            /\ sleeps = (IF cycle = 0 THEN 0 ELSE cycle - 1))
    /\ \A n \in 1..(MaxCycles - 1) :
           (mode = "daemon" /\ cycle = n /\ mainpc = "d_catch")
               ~> (terminated \/ (cycle = n + 1 /\ n \in failedCycles
                                  /\ LinesOf(n) = <<"error">>))

\* C1 witness: iteration 1 failed and wrote its error line, iteration 2 ran
\* after the sleep and wrote a snapshot line.
C1_Witness ==
    /\ mode = "daemon" /\ ~terminated
    /\ failedCycles = {1}
    /\ out = <<[kind |-> "error", cycle |-> 1], [kind |-> "snapshot", cycle |-> 2]>>

\* C2: once the daemon is running, end-of-stream on standard input leads to
\* termination, and so does a delivered interrupt, without any progress of the
\* primary loop being needed; a process ended by a trigger has exit code 0 and
\* has had Close invoked on the handle, which is closed.
C2_ShutdownTriggersTerminate ==
    /\ []((terminated /\ exitBy \in Triggers) =>
              (exitCode = 0 /\ closeCalls >= 1 /\ computer = "closed"))
    /\ ((Running /\ ~stdinOpen) ~> (terminated /\ exitCode = 0))
    /\ ((Running /\ InterruptFired) ~> (terminated /\ exitCode = 0))

\* C2 witness: the parent closed stdin while the loop was running and the
\* stdin watcher closed the handle and ended the process.
C2_Witness ==
    /\ mode = "daemon" /\ terminated /\ exitBy = "stdin" /\ ~stdinOpen
    /\ ~InterruptFired /\ exitCode = 0 /\ closeCalls = 1 /\ cycle >= 2

\* C3 (as claimed): when both triggers have fired, Close has been invoked exactly
\* once by the time the process has ended.
C3_CloseInvokedExactlyOnce ==
    (terminated /\ StdinFired /\ InterruptFired) => closeCalls = 1

\* C3 (amended): when both triggers have fired, Close is invoked at most once
\* per firing and at least once before the process ends, and exactly one
\* invocation releases the handle (the others find it closed).
C3_CloseReleasesOnce ==
    (StdinFired /\ InterruptFired) =>
        /\ closeCalls <= Firings
        /\ closeEffective <= 1
        /\ terminated => (closeCalls >= 1 /\ closeEffective = 1)

\* C3 witness: both contexts passed their Close before either reached Exit.
C3_Witness ==
    /\ terminated /\ StdinFired /\ InterruptFired
    /\ closeCalls = 2 /\ closeEffective = 1

\* C4 (as claimed): the primary loop never refreshes or reads the sensor tree
\* after Close has been invoked on the handle.
C4_NoUseAfterClose == ~usedClosed

\* C5 (as claimed): the process is never ended while an iteration is part-way.
C5_NoExitMidCycle == (mode = "daemon" /\ terminated) => ~MidCycle

\* C5 (amended): the primary loop never abandons an iteration itself: it leaves
\* the try block only by writing the iteration's line and going to sleep; the
\* only other end of a begun iteration is a shutdown trigger's Exit(0), which
\* can come at any point of it.
C5_CycleEndsByLineOrTrigger ==
    /\ [][(MidCycle /\ ~MidCycle') =>
              (Len(out') = Len(out) + 1 /\ mainpc' = "d_sleep" /\ ~terminated')]_vars
    /\ []((terminated /\ MidCycle) => (exitBy \in Triggers /\ exitCode = 0))

\* C5 witness: the stdin watcher ended the process while iteration 2 was between
\* extraction and output.
C5_Witness ==
    /\ mode = "daemon" /\ terminated /\ exitBy = "stdin"
    /\ mainpc = "d_output" /\ cycle = 2

\* C6 (as claimed): over a whole run every begun cycle has written exactly one
\* line.
C6_EveryCycleOneLine ==
    terminated =>
        /\ mode = "once" => Len(out) = 1
        /\ mode = "daemon" => \A n \in 1..cycle : Started(n) => Len(LinesOf(n)) = 1

\* C6 (amended): a cycle writes at most one line, a snapshot or an error
\* record; a cycle that ran to its end has written exactly one; the only cycle
\* with no line is one still in progress or cut short by a trigger's Exit.
C6_CompletedCycleOneLine ==
    /\ mode = "once" =>
           /\ Len(out) <= 1
           /\ \A k \in 1..Len(out) : out[k].kind \in {"snapshot", "error"}
           /\ terminated => Len(out) = 1
    /\ mode = "daemon" =>
           \A n \in 1..cycle :
               /\ Len(LinesOf(n)) <= 1
               /\ \A k \in 1..Len(LinesOf(n)) : LinesOf(n)[k] \in {"snapshot", "error"}
               /\ Completed(n) => Len(LinesOf(n)) = 1
               /\ ~Completed(n) => Len(LinesOf(n)) = 0

\* C6 witness: iteration 1 completed with its line, iteration 2 was cut short by
\* a trigger before writing anything.
C6_Witness ==
    /\ mode = "daemon" /\ terminated /\ MidCycle /\ cycle = 2
    /\ Len(out) = 1

\* C13 (as claimed): when the extraction pass of a daemon cycle begins, every
\* node of the tree, at every depth, has been refreshed in that cycle.
C13_RefreshReachesEveryDepth ==
    (mode = "daemon" /\ mainpc = "d_extract") => refreshed = TreeNodes

\* C13 (amended): when the extraction pass of a daemon cycle begins, exactly
\* the root nodes and their direct sub-nodes have been refreshed in that cycle;
\* when it ends, the extractors have added the deeper nodes they read, so that
\* every node read was refreshed in the cycle, and a node below depth three
\* was neither refreshed nor read.
C13_RefreshReachesTwoLevels ==
    mode = "daemon" =>
        /\ mainpc = "d_extract" => refreshed = {n \in TreeNodes : DepthOf(n) <= 2}
        /\ mainpc = "d_output" =>
              /\ ExtractorReads \subseteq refreshed
              /\ \A n \in TreeNodes : DepthOf(n) > 3 =>
                                         (n \notin refreshed /\ n \notin ExtractorReads)
        /\ ~staleRead

\* C13 witness: the extraction pass of the second cycle has run; the nested
\* motherboard node was refreshed, the node below it was not.
C13_Witness ==
    /\ mode = "daemon" /\ mainpc = "d_output" /\ cycle = 2
    /\ <<"Motherboard", 3>> \in refreshed
    /\ <<"Motherboard", 4>> \notin refreshed
    /\ <<"Cpu", 3>> \notin refreshed

\* The line written last is an error report.
LastLineIsError ==
    out # <<>> /\ out[Len(out)].kind \in {"error", "errortext"}

C15_DaemonOpenFailureIsFatal ==
    /\ []((mode = "daemon" /\ computer = "created") =>
            /\ mainpc \in {"d_fatal", "exited"}
            /\ cycle = 0 /\ sleeps = 0
            /\ ~handlerRegistered /\ stdinpc = "none"
            /\ \A k \in 1..Len(out) : out[k].kind # "snapshot"
            /\ mainpc = "d_fatal" => (out = <<>> /\ ~terminated)
            /\ mainpc = "exited" =>
                  (terminated /\ exitCode = 1 /\ Len(out) = 1 /\ out[1].kind = "error"))
    /\ [][(mode = "daemon" /\ mainpc' = "d_open") => mainpc \in {"main", "d_open"}]_vars
    /\ (mode = "daemon" /\ computer = "created") ~> (terminated /\ exitCode = 1)

\* C15 witness: the daemon's open failed and the process has exited with code 1
\* after its one error line.
C15_Witness ==
    /\ mode = "daemon" /\ computer = "created" /\ terminated /\ exitCode = 1
    /\ Len(out) = 1 /\ out[1].kind = "error" /\ cycle = 0

\* C26: once the daemon's loop is entered, the process terminates only after a
\* shutdown trigger has fired, and as long as none has fired every iteration
\* (failed or not) writes its one line and is followed by the next one; the
\* primary thread is scheduled fairly, iterations are counted up to MaxCycles.
C26_LoopRunsUntilTrigger ==
    /\ []((mode = "daemon" /\ cycle >= 1 /\ terminated) => Firings >= 1)
    /\ []((mode = "daemon" /\ cycle >= 1 /\ Firings = 0) =>
              mainpc \in {"d_refresh", "d_extract", "d_output", "d_catch", "d_sleep"})
    /\ \A n \in 1..(MaxCycles - 1) :
           (mode = "daemon" /\ cycle = n /\ ~terminated)
               ~> (Firings >= 1 \/ (cycle = n + 1 /\ Len(LinesOf(n)) = 1))

\* C26 witness: no trigger has fired, a failed and a successful iteration have
\* both run and written their lines, and the loop is in its last counted
\* iteration.
C26_Witness ==
    /\ mode = "daemon" /\ ~terminated /\ Firings = 0
    /\ cycle = MaxCycles
    /\ failedCycles # {} /\ \E n \in 1..(MaxCycles - 1) : n \notin failedCycles
    /\ Len(out) = MaxCycles - 1

\* C27: a single-shot process writes at most one snapshot line and never
\* enters a loop iteration, and when it has terminated Close has been invoked
\* on the handle, whether the run succeeded, the open failed or the extraction
\* failed.
C27_OnceClosesOnEveryPath ==
    mode = "once" =>
        /\ cycle = 0 /\ sleeps = 0
        /\ Len(out) <= 1
        /\ terminated => closeCalls >= 1

\* What the code does in single-shot mode: at most one line; Close is invoked
\* exactly when the run succeeded (exit code 0), and a run that ended in the
\* catch block (exit code 1) has left the handle unclosed.
OnceClosesOnSuccessOnly ==
    mode = "once" =>
        /\ cycle = 0 /\ sleeps = 0
        /\ Len(out) <= 1
        /\ terminated =>
              /\ exitCode = 0 => (closeCalls = 1 /\ computer = "closed"
                                    /\ Len(out) = 1 /\ out[1].kind = "snapshot")
              /\ exitCode = 1 => (closeCalls = 0 /\ computer \in {"created", "open"}
                                    /\ Len(out) = 1 /\ out[1].kind = "error")

\* C28: a daemon iteration begins with nothing refreshed, the extraction pass
\* ends with every node it read refreshed in that iteration, and no extractor
\* ever reads a node that was last refreshed in an earlier iteration.
C28_ReadsRefreshedInSameCycle ==
    /\ [](mode = "daemon" => ~staleRead)
    /\ []((mode = "daemon" /\ mainpc = "d_refresh") => refreshed = {})
    /\ [][(mode = "daemon" /\ mainpc = "d_extract" /\ mainpc' = "d_output")
              => ExtractorReads \subseteq refreshed']_vars
    /\ [][(mode = "daemon" /\ cycle' # cycle) => refreshed' = {}]_vars

\* C28 witness: the second iteration has extracted and written its snapshot;
\* every node read is among the nodes refreshed in it.
C28_Witness ==
    /\ mode = "daemon" /\ mainpc = "d_sleep" /\ cycle = 2
    /\ 2 \notin failedCycles
    /\ ExtractorReads \subseteq refreshed
    /\ <<"Motherboard", 3>> \in ExtractorReads
    /\ ~staleRead

\* C30: in daemon mode the iteration counter moves only from the sleep step,
\* by one, with exactly one sleep and after the iteration has written its one
\* line (snapshot or error); a sleep never happens otherwise, so iteration n
\* begins after n - 1 sleeps.
C30_OneSleepBetweenCycles ==
    /\ [][(mode = "daemon" /\ cycle >= 1 /\ cycle' # cycle) =>
              /\ mainpc = "d_sleep" /\ mainpc' = "d_refresh"
              /\ cycle' = cycle + 1
              /\ sleeps' = sleeps + 1
              /\ Len(LinesOf(cycle)) = 1]_vars
    /\ [][sleeps' # sleeps => (mainpc = "d_sleep" /\ cycle' = cycle + 1)]_vars
    /\ []((mode = "daemon" /\ cycle >= 1) => sleeps = cycle - 1)

\* C30 witness: two iterations failed one after the other; each wrote its
\* error line, two sleeps have happened and the third iteration begins.
C30_Witness ==
    /\ mode = "daemon" /\ mainpc = "d_refresh" /\ cycle = 3
    /\ failedCycles = {1, 2}
    /\ sleeps = 2
    /\ Len(out) = 2 /\ out[1].kind = "error" /\ out[2].kind = "error"

(***************************************************************************)
(* Part 2: the extractors                                                  *)
(*                                                                         *)
(* A string is a sequence of one-character strings.  A sensor value is an  *)
(* integer (the code's float), absent when has = FALSE.  A quotient the    *)
(* code computes in floating point is kept exact as [num, den].            *)
(***************************************************************************)

Digits == <<"0", "1", "2", "3", "4", "5", "6", "7", "8", "9">>
Upper == <<"A", "B", "C", "D", "E", "F", "G", "H", "I", "J", "K", "L", "M", "N", "O", "P", "Q", "R", "S", "T", "U", "V", "W", "X", "Y", "Z">>
Lower == <<"a", "b", "c", "d", "e", "f", "g", "h", "i", "j", "k", "l", "m", "n", "o", "p", "q", "r", "s", "t", "u", "v", "w", "x", "y", "z">>

IsDigit(c) == \E i \in 1..Len(Digits) : Digits[i] = c
DigitVal(c) == (CHOOSE i \in 1..Len(Digits) : Digits[i] = c) - 1

\* char.ToLower on the letters A-Z.
LowerChar(c) ==
    IF \E i \in 1..Len(Upper) : Upper[i] = c
    THEN Lower[CHOOSE i \in 1..Len(Upper) : Upper[i] = c]
    ELSE c

\* string.ToLower()
ToLower(s) == [i \in 1..Len(s) |-> LowerChar(s[i])]

\* sub occurs in s at position i.
OccursAt(s, sub, i) ==
    /\ i >= 1
    /\ i + Len(sub) - 1 <= Len(s)
    /\ SubSeq(s, i, i + Len(sub) - 1) = sub

\* string.Contains(sub), ordinal.
Contains(s, sub) == \E i \in 1..Len(s) : OccursAt(s, sub, i)

\* string.StartsWith(sub)
StartsWith(s, sub) == OccursAt(s, sub, 1)

\* string.Replace(old, ""): every occurrence removed, left to right.
RECURSIVE Remove(_, _)
Remove(s, old) ==
    IF s = <<>> THEN <<>>
    ELSE IF StartsWith(s, old)
         THEN Remove(SubSeq(s, Len(old) + 1, Len(s)), old)
         ELSE <<Head(s)>> \o Remove(Tail(s), old)

\* string.Split(' ')[0]: the text before the first space (all of it if none).
RECURSIVE SplitFirst(_)
SplitFirst(s) ==
    IF s = <<>> \/ Head(s) = " " THEN <<>>
    ELSE <<Head(s)>> \o SplitFirst(Tail(s))

RECURSIVE DigitsValue(_, _)
DigitsValue(s, acc) ==
    IF s = <<>> THEN acc
    ELSE DigitsValue(Tail(s), acc * 10 + DigitVal(Head(s)))

AllDigits(s) == s # <<>> /\ \A i \in 1..Len(s) : IsDigit(s[i])

RECURSIVE TrimLeft(_)
TrimLeft(s) == IF s # <<>> /\ Head(s) = " " THEN TrimLeft(Tail(s)) ELSE s

RECURSIVE TrimRight(_)
TrimRight(s) ==
    IF s # <<>> /\ s[Len(s)] = " " THEN TrimRight(SubSeq(s, 1, Len(s) - 1)) ELSE s

\* Digits without their leading zeros.
RECURSIVE StripZeros(_)
StripZeros(s) == IF Len(s) > 1 /\ Head(s) = "0" THEN StripZeros(Tail(s)) ELSE s

\* a <= b for digit strings of the same length.
RECURSIVE DigitsLeq(_, _)
DigitsLeq(a, b) ==
    IF a = <<>> THEN TRUE
    ELSE IF DigitVal(Head(a)) # DigitVal(Head(b)) THEN DigitVal(Head(a)) < DigitVal(Head(b))
    ELSE DigitsLeq(Tail(a), Tail(b))

\* The digits of int.MaxValue (2^31 - 1) and of -int.MinValue (2^31).
Int32MaxDigits == <<"2", "1", "4", "7", "4", "8", "3", "6", "4", "7">>
Int32MinDigits == <<"2", "1", "4", "7", "4", "8", "3", "6", "4", "8">>

\* int.TryParse(s, out n), NumberStyles.Integer: white space, an optional sign,
\* decimal digits, white space; fails outside the 32-bit range.
\* <<>> when the parse fails, <<n>> when it succeeds.
TryParseInt(s) ==
    LET t == TrimRight(TrimLeft(s))
        signed == t # <<>> /\ Head(t) \in {"+", "-"}
        negative == signed /\ Head(t) = "-"
        ds == IF signed THEN Tail(t) ELSE t
        sig == StripZeros(ds)
    IN  IF ~AllDigits(ds) THEN <<>>
        ELSE IF \/ Len(sig) < Len(Int32MaxDigits)
                \/ Len(sig) = Len(Int32MaxDigits) /\ DigitsLeq(sig, Int32MaxDigits)
             THEN <<(IF negative THEN -1 ELSE 1) * DigitsValue(sig, 0)>>
             ELSE IF negative /\ sig = Int32MinDigits
                  THEN <<0 - DigitsValue(Int32MaxDigits, 0) - 1>>
                  ELSE <<>>

\* Length of the run of digits of s that starts at position i.
RECURSIVE DigitRun(_, _)
DigitRun(s, i) ==
    IF i <= Len(s) /\ IsDigit(s[i]) THEN 1 + DigitRun(s, i + 1) ELSE 0

\* Length of the run of spaces of s that starts at position i (\s*).
RECURSIVE SpaceRun(_, _)
SpaceRun(s, i) ==
    IF i <= Len(s) /\ s[i] = " " THEN 1 + SpaceRun(s, i + 1) ELSE 0

\* The unit of a capacity pattern at position i, letter case ignored.
UnitAt(s, unit, i) ==
    /\ i + Len(unit) - 1 <= Len(s)
    /\ ToLower(SubSeq(s, i, i + Len(unit) - 1)) = ToLower(unit)

\* Regex (\d+(?:\.\d+)?)\s*<unit> tried at start position i, RegexOptions.IgnoreCase.
\* \d+ and \s* are greedy, and a shorter run cannot be followed by the rest of
\* the pattern, so the match at i is decided by the maximal runs.  <<>> when
\* there is no match at i, <<group 1>> otherwise; withFraction is FALSE for the
\* pattern (\d+)\s*<unit>.
CapacityMatchAt(s, unit, i, withFraction) ==
    LET n == DigitRun(s, i)
        f == IF withFraction /\ n > 0 /\ i + n <= Len(s) /\ s[i + n] = "."
             THEN DigitRun(s, i + n + 1) ELSE 0
        numEnd == IF f > 0 THEN i + n + f ELSE i + n - 1
        unitPos == numEnd + 1 + SpaceRun(s, numEnd + 1)
    IN  IF n > 0 /\ UnitAt(s, unit, unitPos)
        THEN <<SubSeq(s, i, numEnd)>>
        ELSE <<>>

\* Regex.Match(s, pattern): the leftmost match.
RECURSIVE CapacityMatchFrom(_, _, _, _)
CapacityMatchFrom(s, unit, i, withFraction) ==
    IF i > Len(s) THEN <<>>
    ELSE IF CapacityMatchAt(s, unit, i, withFraction) # <<>>
         THEN CapacityMatchAt(s, unit, i, withFraction)
         ELSE CapacityMatchFrom(s, unit, i + 1, withFraction)

CapacityMatch(s, unit, withFraction) == CapacityMatchFrom(s, unit, 1, withFraction)

\* Position of the first "." of s, 0 if none.
RECURSIVE DotPos(_, _)
DotPos(s, i) ==
    IF i > Len(s) THEN 0 ELSE IF s[i] = "." THEN i ELSE DotPos(s, i + 1)

RECURSIVE Pow10(_)
Pow10(n) == IF n = 0 THEN 1 ELSE 10 * Pow10(n - 1)

\* float.TryParse on digits with an optional fraction (a culture whose decimal
\* separator is "."): the value as an exact quotient.
ParseFloat(g) ==
    LET d == DotPos(g, 1)
    IN  IF d = 0 THEN [num |-> DigitsValue(g, 0), den |-> 1]
        ELSE [num |-> DigitsValue(SubSeq(g, 1, d - 1) \o SubSeq(g, d + 1, Len(g)), 0),
              den |-> Pow10(Len(g) - d)]

Whole(n) == [num |-> n, den |-> 1]
Zero == Whole(0)
RatEq(a, b) == a.num * b.den = b.num * a.den

RECURSIVE SumSeq(_)
SumSeq(xs) == IF xs = <<>> THEN 0 ELSE Head(xs) + SumSeq(Tail(xs))

MaxOf(S) == CHOOSE m \in S : \A x \in S : x <= m

\* Dictionary<int, float>: d[k] = v
Put(d, k, v) == [x \in (DOMAIN d) \cup {k} |-> IF x = k THEN v ELSE d[x]]
EmptyDict == [x \in {} |-> 0]

S_CorePound == <<"C", "o", "r", "e", " ", "#">>
S_CpuCorePound == <<"C", "P", "U", " ", "C", "o", "r", "e", " ", "#">>
S_Package == <<"P", "a", "c", "k", "a", "g", "e">>
S_CPU == <<"C", "P", "U">>
S_CCD == <<"C", "C", "D">>
S_CpuTotal == <<"C", "P", "U", " ", "T", "o", "t", "a", "l">>

---------------------------------------------------------------------------
\* ExtractCpuData

\* sensor.Name.Replace("Core #", "").Split(' ')[0] handed to int.TryParse
CoreIndexOfTemperature(name) == TryParseInt(SplitFirst(Remove(name, S_CorePound)))

\* sensor.Name.Replace("CPU Core #", "").Split(' ')[0] handed to int.TryParse
CoreIndexOfLoad(name) == TryParseInt(SplitFirst(Remove(name, S_CpuCorePound)))

CpuInitial ==
    [temperature |-> 0, load |-> 0, coreTemps |-> EmptyDict, coreLoads |-> EmptyDict,
     coreClocks |-> <<>>]

\* Mutant: the aggregate temperature is the last aggregate reading.
CpuStepKeepsLast(st, sensor) ==
    IF ~sensor.has THEN st
    ELSE CASE sensor.kind = "Temperature" ->
                IF Contains(sensor.name, S_CorePound)
                THEN IF CoreIndexOfTemperature(sensor.name) # <<>>
                     THEN [st EXCEPT !.coreTemps =
                              Put(@, CoreIndexOfTemperature(sensor.name)[1], sensor.value)]
                     ELSE st
                ELSE IF \/ Contains(sensor.name, S_Package)
                        \/ Contains(sensor.name, S_CPU)
                        \/ Contains(sensor.name, S_CCD)
                     THEN IF TRUE
                          THEN [st EXCEPT !.temperature = sensor.value]
                          ELSE st
                     ELSE st
           [] sensor.kind = "Load" ->
                IF sensor.name = S_CpuTotal
                THEN [st EXCEPT !.load = sensor.value]
                ELSE IF Contains(sensor.name, S_CorePound)
                     THEN IF CoreIndexOfLoad(sensor.name) # <<>>
                          THEN [st EXCEPT !.coreLoads =
                                   Put(@, CoreIndexOfLoad(sensor.name)[1], sensor.value)]
                          ELSE st
                     ELSE st
           [] sensor.kind = "Clock" ->
                IF Contains(sensor.name, S_CorePound)
                THEN [st EXCEPT !.coreClocks = Append(@, sensor.value)]
                ELSE st
           [] OTHER -> st

\* Mutant: a reading without a value is taken with the value 0.
CpuStepCountsValueless(st, sensor) ==
    IF FALSE THEN st
    ELSE CASE sensor.kind = "Temperature" ->
                IF Contains(sensor.name, S_CorePound)
                THEN IF CoreIndexOfTemperature(sensor.name) # <<>>
                     THEN [st EXCEPT !.coreTemps =
                              Put(@, CoreIndexOfTemperature(sensor.name)[1], sensor.value)]
                     ELSE st
                ELSE IF \/ Contains(sensor.name, S_Package)
                        \/ Contains(sensor.name, S_CPU)
                        \/ Contains(sensor.name, S_CCD)
                     THEN IF sensor.value > st.temperature
                          THEN [st EXCEPT !.temperature = sensor.value]
                          ELSE st
                     ELSE st
           [] sensor.kind = "Load" ->
                IF sensor.name = S_CpuTotal
                THEN [st EXCEPT !.load = sensor.value]
                ELSE IF Contains(sensor.name, S_CorePound)
                     THEN IF CoreIndexOfLoad(sensor.name) # <<>>
                          THEN [st EXCEPT !.coreLoads =
                                   Put(@, CoreIndexOfLoad(sensor.name)[1], sensor.value)]
                          ELSE st
                     ELSE st
           [] sensor.kind = "Clock" ->
                IF Contains(sensor.name, S_CorePound)
                THEN [st EXCEPT !.coreClocks = Append(@, sensor.value)]
                ELSE st
           [] OTHER -> st

\* The body of the foreach over hardware.Sensors.
CpuStep(st, sensor) ==
    IF ~sensor.has THEN st
    ELSE CASE sensor.kind = "Temperature" ->
                IF Contains(sensor.name, S_CorePound)
                THEN IF CoreIndexOfTemperature(sensor.name) # <<>>
                     THEN [st EXCEPT !.coreTemps =
                              Put(@, CoreIndexOfTemperature(sensor.name)[1], sensor.value)]
                     ELSE st
                ELSE IF \/ Contains(sensor.name, S_Package)
                        \/ Contains(sensor.name, S_CPU)
                        \/ Contains(sensor.name, S_CCD)
                     THEN IF sensor.value > st.temperature
                          THEN [st EXCEPT !.temperature = sensor.value]
                          ELSE st
                     ELSE st
           [] sensor.kind = "Load" ->
                IF sensor.name = S_CpuTotal
                THEN [st EXCEPT !.load = sensor.value]
                ELSE IF Contains(sensor.name, S_CorePound)
                     THEN IF CoreIndexOfLoad(sensor.name) # <<>>
                          THEN [st EXCEPT !.coreLoads =
                                   Put(@, CoreIndexOfLoad(sensor.name)[1], sensor.value)]
                          ELSE st
                     ELSE st
           [] sensor.kind = "Clock" ->
                IF Contains(sensor.name, S_CorePound)
                THEN [st EXCEPT !.coreClocks = Append(@, sensor.value)]
                ELSE st
           [] OTHER -> st

\* foreach (var sensor in hardware.Sensors)
RECURSIVE CpuPassFrom(_, _)
CpuPassFrom(st, sensors) ==
    IF sensors = <<>> THEN st
    ELSE CpuPassFrom(CpuStep(st, Head(sensors)), Tail(sensors))

CpuPass(sensors) == CpuPassFrom(CpuInitial, sensors)

Max2(a, b) == IF a >= b THEN a ELSE b

\* Mutant: the core count looks at the temperature map only.
MaxCoresTempsOnly(coreTemps, coreLoads) ==
    IF DOMAIN coreTemps # {} THEN MaxOf(DOMAIN coreTemps) + 1 ELSE 0

\* Math.Max(coreTemps.Count > 0 ? coreTemps.Keys.Max() + 1 : 0,
\*          coreLoads.Count > 0 ? coreLoads.Keys.Max() + 1 : 0)
MaxCores(coreTemps, coreLoads) ==
    Max2(IF DOMAIN coreTemps # {} THEN MaxOf(DOMAIN coreTemps) + 1 ELSE 0,
         IF DOMAIN coreLoads # {} THEN MaxOf(DOMAIN coreLoads) + 1 ELSE 0)

\* Mutant: GetValueOrDefault(i) without the aggregate as default.
GetValueOrZero(d, k, default) == IF k \in DOMAIN d THEN d[k] ELSE 0

\* Dictionary.GetValueOrDefault(k, default)
GetValueOrDefault(d, k, default) == IF k \in DOMAIN d THEN d[k] ELSE default

\* The for loop that builds cpu.Cores; <<>> is null, <<list>> a list.
BuildCores(st) ==
    LET maxCores == MaxCores(st.coreTemps, st.coreLoads)
    IN  IF maxCores > 0
        THEN <<[k \in 1..maxCores |->
                  [index |-> k - 1,
                   temperature |-> GetValueOrDefault(st.coreTemps, k - 1, st.temperature),
                   load |-> GetValueOrDefault(st.coreLoads, k - 1, st.load)]]>>
        ELSE <<>>

\* coreClocks.Average() / 1000f
CpuFrequency(st) ==
    IF Len(st.coreClocks) > 0
    THEN [num |-> SumSeq(st.coreClocks), den |-> Len(st.coreClocks) * 1000]
    ELSE Zero

ExtractCpuData(hardware) ==
    LET st == CpuPass(hardware.sensors)
    IN  [name |-> hardware.name,
         temperature |-> st.temperature,
         maxTemperature |-> 100,
         load |-> st.load,
         frequency |-> CpuFrequency(st),
         cores |-> BuildCores(st)]

---------------------------------------------------------------------------
\* ExtractGpuData

S_GpuCore == <<"G", "P", "U", " ", "C", "o", "r", "e">>
S_GPU == <<"G", "P", "U">>
S_Temperature == <<"T", "e", "m", "p", "e", "r", "a", "t", "u", "r", "e">>
S_GpuMemoryUsed == <<"G", "P", "U", " ", "M", "e", "m", "o", "r", "y", " ", "U", "s", "e", "d">>
S_D3DDedicatedMemoryUsed == <<"D", "3", "D", " ", "D", "e", "d", "i", "c", "a", "t", "e", "d", " ", "M", "e", "m", "o", "r", "y", " ", "U", "s", "e", "d">>
S_GpuMemoryTotal == <<"G", "P", "U", " ", "M", "e", "m", "o", "r", "y", " ", "T", "o", "t", "a", "l">>

GpuInitial(name) ==
    [name |-> name, temperature |-> 0, maxTemperature |-> 0, load |-> 0,
     frequency |-> Zero, memoryUsed |-> Zero, memoryTotal |-> Zero]

\* The body of the foreach over hardware.Sensors.
GpuStep(gpu, sensor) ==
    IF ~sensor.has THEN gpu
    ELSE CASE sensor.kind = "Temperature" ->
                IF \/ Contains(sensor.name, S_GpuCore)
                   \/ sensor.name = S_GPU
                   \/ sensor.name = S_Temperature
                THEN [gpu EXCEPT !.temperature = sensor.value]
                ELSE gpu
           [] sensor.kind = "Load" ->
                IF sensor.name = S_GpuCore \/ sensor.name = S_GPU
                THEN [gpu EXCEPT !.load = sensor.value]
                ELSE gpu
           [] sensor.kind = "Clock" ->
                IF sensor.name = S_GpuCore \/ Contains(sensor.name, S_GpuCore)
                THEN [gpu EXCEPT !.frequency = [num |-> sensor.value, den |-> 1000]]
                ELSE gpu
           [] sensor.kind = "SmallData" ->
                IF sensor.name = S_GpuMemoryUsed \/ sensor.name = S_D3DDedicatedMemoryUsed
                THEN [gpu EXCEPT !.memoryUsed = [num |-> sensor.value, den |-> 1024]]
                ELSE IF sensor.name = S_GpuMemoryTotal
                     THEN [gpu EXCEPT !.memoryTotal = [num |-> sensor.value, den |-> 1024]]
                     ELSE gpu
           [] OTHER -> gpu

\* foreach (var sensor in hardware.Sensors)
RECURSIVE GpuPassFrom(_, _)
GpuPassFrom(gpu, sensors) ==
    IF sensors = <<>> THEN gpu
    ELSE GpuPassFrom(GpuStep(gpu, Head(sensors)), Tail(sensors))

ExtractGpuData(hardware) ==
    [GpuPassFrom(GpuInitial(hardware.name), hardware.sensors)
        EXCEPT !.maxTemperature = 95]

---------------------------------------------------------------------------
\* ExtractMotherboardData

\* The outcome of a call that an exception left: the caller gets no value.
Raised == [raised |-> TRUE]
IsRaised(x) == "raised" \in DOMAIN x

S_Core == <<"C", "o", "r", "e">>
S_TemperaturePound == <<"T", "e", "m", "p", "e", "r", "a", "t", "u", "r", "e", " ", "#">>

\* The priority list of the temperature branch.
IsPreferredTemperature(name) ==
    LET lowerName == ToLower(name)
    IN  \/ Contains(lowerName, <<"s", "y", "s", "t", "e", "m">>)
        \/ Contains(lowerName, <<"m", "o", "t", "h", "e", "r", "b", "o", "a", "r", "d">>)
        \/ Contains(lowerName, <<"m", "a", "i", "n", "b", "o", "a", "r", "d">>)
        \/ Contains(lowerName, <<"p", "c", "h">>)
        \/ Contains(lowerName, <<"v", "r", "m">>)
        \/ Contains(lowerName, <<"c", "h", "i", "p", "s", "e", "t">>)
        \/ Contains(lowerName, <<"m", "o", "s">>)
        \/ Contains(lowerName, <<"v", "s", "o", "c">>)
        \/ Contains(lowerName, <<"a", "u", "x", "t", "i", "n">>)
        \/ Contains(lowerName, <<"t", "e", "m", "p", "1">>)
        \/ StartsWith(name, S_TemperaturePound)

\* Mutant: the temperature branch without the exclusion of CPU / Core names.
MotherboardStepKeepsCpu(st, sensor) ==
    IF ~sensor.has THEN st
    ELSE CASE sensor.kind = "Temperature" ->
                IF sensor.value > 0 /\ sensor.value < 150
                THEN [st EXCEPT
                        !.temps = Append(@, sensor.value),
                        !.temperature =
                            IF IsPreferredTemperature(sensor.name) /\ st.temperature = 0
                            THEN sensor.value ELSE @]
                ELSE st
           [] sensor.kind = "Fan" ->
                IF sensor.value > 0
                THEN [st EXCEPT !.fans =
                         Append(@, [name |-> sensor.name, speed |-> sensor.value])]
                ELSE st
           [] OTHER -> st

\* The body of the foreach of ProcessSensors; st holds mb.Temperature, temps
\* and mb.Fans.
MotherboardStep(st, sensor) ==
    IF ~sensor.has THEN st
    ELSE CASE sensor.kind = "Temperature" ->
                IF /\ ~Contains(sensor.name, S_CPU)
                   /\ ~Contains(sensor.name, S_Core)
                   /\ sensor.value > 0
                   /\ sensor.value < 150
                THEN [st EXCEPT
                        !.temps = Append(@, sensor.value),
                        !.temperature =
                            IF IsPreferredTemperature(sensor.name) /\ st.temperature = 0
                            THEN sensor.value ELSE @]
                ELSE st
           [] sensor.kind = "Fan" ->
                IF sensor.value > 0
                THEN [st EXCEPT !.fans =
                         Append(@, [name |-> sensor.name, speed |-> sensor.value])]
                ELSE st
           [] OTHER -> st

\* foreach (var sensor in hw.Sensors)
RECURSIVE ProcessSensorsFrom(_, _)
ProcessSensorsFrom(st, sensors) ==
    IF sensors = <<>> THEN st
    ELSE ProcessSensorsFrom(MotherboardStep(st, Head(sensors)), Tail(sensors))

\* ProcessSensors(hw)
ProcessSensors(st, hw) == ProcessSensorsFrom(st, hw.sensors)

\* Mutant: the nested sub-hardware is not scanned.
ProcessNestedSkipped(st, nested) == st

\* foreach (var nestedSub in subHardware.SubHardware)
\*     { nestedSub.Update(); ProcessSensors(nestedSub); }
\* An Update() that raises ends the loop; nothing in the extractor catches it.
RECURSIVE ProcessNested(_, _)
ProcessNested(st, nested) ==
    IF nested = <<>> \/ st.raised THEN st
    ELSE IF Head(nested).updateFails THEN [st EXCEPT !.raised = TRUE]
    ELSE ProcessNested(ProcessSensors(st, Head(nested)), Tail(nested))

\* foreach (var subHardware in hardware.SubHardware)
\*     { subHardware.Update(); ProcessSensors(subHardware); ...nested... }
RECURSIVE ProcessSubHardware(_, _)
ProcessSubHardware(st, subs) ==
    IF subs = <<>> \/ st.raised THEN st
    ELSE IF Head(subs).updateFails THEN [st EXCEPT !.raised = TRUE]
    ELSE ProcessSubHardware(
             ProcessNested(ProcessSensors(st, Head(subs)), Head(subs).sub), Tail(subs))

\* Mutant: without a preferred temperature the last collected one is used.
ExtractMotherboardDataLastCandidate(hardware) ==
    LET st0 == [temperature |-> 0, temps |-> <<>>, fans |-> <<>>, raised |-> FALSE]
        st == ProcessSubHardware(ProcessSensors(st0, hardware), hardware.sub)
    IN  IF st.raised THEN Raised
        ELSE [name |-> hardware.name,
              temperature |-> IF st.temperature = 0 /\ Len(st.temps) > 0
                              THEN st.temps[Len(st.temps)] ELSE st.temperature,
              fans |-> st.fans]

ExtractMotherboardData(hardware) ==
    LET st0 == [temperature |-> 0, temps |-> <<>>, fans |-> <<>>, raised |-> FALSE]
        st == ProcessSubHardware(ProcessSensors(st0, hardware), hardware.sub)
    IN  IF st.raised THEN Raised
        ELSE [name |-> hardware.name,
              temperature |-> IF st.temperature = 0 /\ Len(st.temps) > 0
                              THEN st.temps[1] ELSE st.temperature,
              fans |-> st.fans]

---------------------------------------------------------------------------
\* ExtractStorageData

S_UsedSpace == <<"U", "s", "e", "d", " ", "S", "p", "a", "c", "e">>
S_Used == <<"U", "s", "e", "d">>
S_TB == <<"T", "B">>
S_GB == <<"G", "B">>

\* The body of the foreach of ExtractSensors.
StorageStep(storage, sensor) ==
    IF ~sensor.has THEN storage
    ELSE CASE sensor.kind = "Temperature" ->
                IF sensor.value > 0 /\ sensor.value < 100 /\ storage.temperature = 0
                THEN [storage EXCEPT !.temperature = sensor.value]
                ELSE storage
           [] sensor.kind = "Load" ->
                IF sensor.name = S_UsedSpace \/ Contains(sensor.name, S_Used)
                THEN [storage EXCEPT !.usedPercent = sensor.value]
                ELSE storage
           [] sensor.kind = "Level" ->
                IF /\ \/ Contains(ToLower(sensor.name), <<"t", "e", "m", "p", "e", "r", "a", "t", "u", "r", "e">>)
                      \/ Contains(ToLower(sensor.name), <<"t", "e", "m", "p">>)
                   /\ sensor.value > 0
                   /\ sensor.value < 100
                   /\ storage.temperature = 0
                THEN [storage EXCEPT !.temperature = sensor.value]
                ELSE storage
           [] OTHER -> storage

\* foreach (var sensor in hw.Sensors)
RECURSIVE ExtractSensorsFrom(_, _)
ExtractSensorsFrom(storage, sensors) ==
    IF sensors = <<>> THEN storage
    ELSE ExtractSensorsFrom(StorageStep(storage, Head(sensors)), Tail(sensors))

\* ExtractSensors(hw)
ExtractSensors(storage, hw) == ExtractSensorsFrom(storage, hw.sensors)

\* foreach (var subHardware in hardware.SubHardware)
\*     { subHardware.Update(); ExtractSensors(subHardware); }
\* An Update() that raises ends the loop; nothing in the extractor catches it.
RECURSIVE ExtractSubSensors(_, _)
ExtractSubSensors(storage, subs) ==
    IF subs = <<>> \/ IsRaised(storage) THEN storage
    ELSE IF Head(subs).updateFails THEN Raised
    ELSE ExtractSubSensors(ExtractSensors(storage, Head(subs)), Tail(subs))

\* The capacity read from the display name; a float as an exact quotient.
TotalSpaceOfName(name) ==
    IF Contains(name, S_TB)
    THEN IF CapacityMatch(name, S_TB, TRUE) # <<>>
         THEN [num |-> ParseFloat(CapacityMatch(name, S_TB, TRUE)[1]).num * 1024,
               den |-> ParseFloat(CapacityMatch(name, S_TB, TRUE)[1]).den]
         ELSE Zero
    ELSE IF Contains(name, S_GB)
         THEN IF CapacityMatch(name, S_GB, FALSE) # <<>>
              THEN ParseFloat(CapacityMatch(name, S_GB, FALSE)[1])
              ELSE Zero
         ELSE Zero

ExtractStorageData(hardware) ==
    LET st0 == [name |-> hardware.name, temperature |-> 0, usedPercent |-> 0,
                totalSpace |-> Zero]
        st == ExtractSubSensors(ExtractSensors(st0, hardware), hardware.sub)
    IN  IF IsRaised(st) THEN Raised
        ELSE [st EXCEPT !.totalSpace = TotalSpaceOfName(hardware.name)]

---------------------------------------------------------------------------
\* ExtractData

GpuTypes == {"GpuNvidia", "GpuAmd", "GpuIntel"}

\* new HardwareData(); a null field is <<>>, a set field <<value>>.  calls
\* records which extractor was invoked on which root node.
EmptyData ==
    [cpu |-> <<>>, gpu |-> <<>>, storage |-> <<>>, motherboard |-> <<>>, calls |-> <<>>]

\* Mutant: every GPU node is extracted and the last one stays.
GpuCaseOverwrites(data, hardware, i) ==
    [data EXCEPT !.gpu = <<ExtractGpuData(hardware)>>,
                 !.calls = Append(@, <<"gpu", i>>)]

\* if (data.Gpu == null) data.Gpu = ExtractGpuData(hardware);
GpuCase(data, hardware, i) ==
    IF data.gpu = <<>>
    THEN [data EXCEPT !.gpu = <<ExtractGpuData(hardware)>>,
                      !.calls = Append(@, <<"gpu", i>>)]
    ELSE data

\* Mutant: a storage node without any figure is left out of the list.
StorageCaseSkipsEmpty(data, hardware, i) ==
    IF IsRaised(ExtractStorageData(hardware)) THEN Raised
    ELSE IF /\ ExtractStorageData(hardware).temperature = 0
            /\ ExtractStorageData(hardware).usedPercent = 0
            /\ ExtractStorageData(hardware).totalSpace = Zero
         THEN [data EXCEPT !.calls = Append(@, <<"storage", i>>)]
         ELSE [data EXCEPT !.storage =
                     <<(IF @ = <<>> THEN <<>> ELSE @[1]) \o <<ExtractStorageData(hardware)>>>>,
                 !.calls = Append(@, <<"storage", i>>)]

\* data.Storage ??= new List<StorageData>(); ... data.Storage.Add(storageData);
StorageCase(data, hardware, i) ==
    IF IsRaised(ExtractStorageData(hardware)) THEN Raised
    ELSE [data EXCEPT !.storage =
                     <<(IF @ = <<>> THEN <<>> ELSE @[1]) \o <<ExtractStorageData(hardware)>>>>,
                 !.calls = Append(@, <<"storage", i>>)]

\* Mutant: only the first CPU node is extracted, as for the GPU.
DataStepKeepsFirstCpu(data, hardware, i) ==
    CASE hardware.type = "Cpu" ->
            IF data.cpu = <<>>
            THEN [data EXCEPT !.cpu = <<ExtractCpuData(hardware)>>,
                              !.calls = Append(@, <<"cpu", i>>)]
            ELSE data
      [] hardware.type \in GpuTypes -> GpuCase(data, hardware, i)
      [] hardware.type = "Motherboard" ->
            IF IsRaised(ExtractMotherboardData(hardware)) THEN Raised
            ELSE [data EXCEPT !.motherboard = <<ExtractMotherboardData(hardware)>>,
                              !.calls = Append(@, <<"motherboard", i>>)]
      [] hardware.type = "Storage" -> StorageCase(data, hardware, i)
      [] OTHER -> data

\* The switch on hardware.HardwareType for root node i.
DataStep(data, hardware, i) ==
    CASE hardware.type = "Cpu" ->
            [data EXCEPT !.cpu = <<ExtractCpuData(hardware)>>,
                         !.calls = Append(@, <<"cpu", i>>)]
      [] hardware.type \in GpuTypes -> GpuCase(data, hardware, i)
      [] hardware.type = "Motherboard" ->
            IF IsRaised(ExtractMotherboardData(hardware)) THEN Raised
            ELSE [data EXCEPT !.motherboard = <<ExtractMotherboardData(hardware)>>,
                              !.calls = Append(@, <<"motherboard", i>>)]
      [] hardware.type = "Storage" -> StorageCase(data, hardware, i)
      [] OTHER -> data

RECURSIVE ExtractDataFrom(_, _, _)
ExtractDataFrom(data, tree, i) ==
    IF i > Len(tree) \/ IsRaised(data) THEN data
    ELSE ExtractDataFrom(DataStep(data, tree[i], i), tree, i + 1)

\* foreach (var hardware in computer.Hardware) ...
ExtractData(tree) == ExtractDataFrom(EmptyData, tree, 1)

---------------------------------------------------------------------------
\* Main: the argument vector

S_DebugFlag == <<"-", "-", "d", "e", "b", "u", "g">>
S_DaemonFlag == <<"-", "-", "d", "a", "e", "m", "o", "n">>

\* The branch Main takes.
ModeOf(args) ==
    IF Len(args) > 0 /\ args[1] = S_DebugFlag THEN "debug"
    ELSE IF Len(args) > 0 /\ args[1] = S_DaemonFlag THEN "daemon"
    ELSE "once"

\* Mutant: the parsed interval is used as it is.
IntervalMsUnclamped(args) ==
    IF Len(args) > 1 /\ TryParseInt(args[2]) # <<>>
    THEN TryParseInt(args[2])[1]
    ELSE 1000

\* int intervalMs = 1000;
\* if (args.Length > 1 && int.TryParse(args[1], out int parsed))
\*     intervalMs = Math.Max(100, parsed);
IntervalMs(args) ==
    IF Len(args) > 1 /\ TryParseInt(args[2]) # <<>>
    THEN Max2(100, TryParseInt(args[2])[1])
    ELSE 1000

\* What Main hands on: the mode, and for the daemon the interval of the loop.
MainOf(args) ==
    [mode |-> ModeOf(args),
     intervalMs |-> IF ModeOf(args) = "daemon" THEN <<IntervalMs(args)>> ELSE <<>>]

---------------------------------------------------------------------------
\* Specifications that apply one extractor to an input drawn from a bounded set.

\* The process variables play no part in them.
ProcIdle ==
    /\ mode = "once"
    /\ mainpc = "extractor"
    /\ computer = "open"
    /\ handlerRegistered = FALSE
    /\ stdinOpen = TRUE
    /\ stdinpc = "none"
    /\ hpc = [i \in Interrupts |-> "none"]
    /\ terminated = FALSE
    /\ exitCode = 0
    /\ exitBy = "none"
    /\ out = <<>>
    /\ cycle = 0
    /\ failedCycles = {}
    /\ sleeps = 0
    /\ closeCalls = 0
    /\ closeEffective = 0
    /\ usedClosed = FALSE
    /\ refreshed = {}
    /\ staleRead = FALSE

Reading(name, kind, has, value) ==
    [name |-> name, kind |-> kind, has |-> has, value |-> value]

\* updateFails: IHardware.Update() raises on this node.
Node(name, type, sensors, sub) ==
    [name |-> name, type |-> type, sensors |-> sensors, sub |-> sub,
     updateFails |-> FALSE]

BrokenNode(name, type, sensors, sub) ==
    [name |-> name, type |-> type, sensors |-> sensors, sub |-> sub,
     updateFails |-> TRUE]

\* Sequences over S of length at most n.
SeqsUpTo(S, n) == UNION {[1..k -> S] : k \in 0..n}

MaxCpuSensors == 3

S_IntelCpu == <<"I", "n", "t", "e", "l", " ", "C", "o", "r", "e", " ", "i", "7">>

CpuReadings ==
    { Reading(<<"C", "o", "r", "e", " ", "#", "1">>, "Temperature", TRUE, 41),
      Reading(<<"C", "o", "r", "e", " ", "#", "3", " ", "(", "T", "c", "t", "l", ")">>, "Temperature", TRUE, 43),
      Reading(<<"C", "P", "U", " ", "C", "o", "r", "e", " ", "#", "2">>, "Temperature", TRUE, 52),
      Reading(<<"C", "o", "r", "e", " ", "#", "5">>, "Temperature", FALSE, 0),
      Reading(<<"C", "o", "r", "e", " ", "M", "a", "x">>, "Temperature", TRUE, 60),
      Reading(<<"C", "P", "U", " ", "P", "a", "c", "k", "a", "g", "e">>, "Temperature", TRUE, 70),
      Reading(<<"C", "C", "D", "1", " ", "(", "T", "d", "i", "e", ")">>, "Temperature", TRUE, 75),
      Reading(<<"C", "P", "U", " ", "C", "o", "r", "e", " ", "#", "2">>, "Load", TRUE, 22),
      Reading(<<"C", "P", "U", " ", "C", "o", "r", "e", " ", "#", "4", " ", "T", "h", "r", "e", "a", "d", " ", "#", "1">>, "Load", TRUE, 24),
      Reading(<<"C", "o", "r", "e", " ", "#", "2">>, "Load", TRUE, 26),
      Reading(<<"C", "P", "U", " ", "T", "o", "t", "a", "l">>, "Load", TRUE, 30),
      Reading(<<"C", "P", "U", " ", "C", "o", "r", "e", " ", "#", "1">>, "Clock", TRUE, 3000) }

CpuInputs ==
    {Node(S_IntelCpu, "Cpu", ss, <<>>) : ss \in SeqsUpTo(CpuReadings, MaxCpuSensors)}

InitCpu ==
    /\ ProcIdle
    /\ hwIn \in CpuInputs
    /\ res = <<>>

RunExtractCpu ==
    /\ res = <<>>
    /\ res' = <<ExtractCpuData(hwIn)>>
    /\ UNCHANGED hwIn
    /\ UNCHANGED procVars

NextCpu == RunExtractCpu

SpecCpu == InitCpu /\ [][NextCpu]_vars

\* The core indices carried by the valued per-core readings of a sensor list.
SeenTempIndices(sensors) ==
    {CoreIndexOfTemperature(sensors[k].name)[1] :
        k \in {j \in 1..Len(sensors) :
                 /\ sensors[j].has /\ sensors[j].kind = "Temperature"
                 /\ Contains(sensors[j].name, S_CorePound)
                 /\ CoreIndexOfTemperature(sensors[j].name) # <<>>}}

SeenLoadIndices(sensors) ==
    {CoreIndexOfLoad(sensors[k].name)[1] :
        k \in {j \in 1..Len(sensors) :
                 /\ sensors[j].has /\ sensors[j].kind = "Load"
                 /\ sensors[j].name # S_CpuTotal
                 /\ Contains(sensors[j].name, S_CorePound)
                 /\ CoreIndexOfLoad(sensors[j].name) # <<>>}}

SeenIndices(sensors) == SeenTempIndices(sensors) \cup SeenLoadIndices(sensors)

\* The N of a name of the "Core #N" family ("Core #3", "CPU Core #3",
\* "Core #3 (Tctl)"): the digits that follow the first "Core #" of the name.
NumberAfterCorePound(name) ==
    IF ~Contains(name, S_CorePound) THEN <<>>
    ELSE LET at == CHOOSE i \in 1..Len(name) :
                       /\ OccursAt(name, S_CorePound, i)
                       /\ \A j \in 1..(i - 1) : ~OccursAt(name, S_CorePound, j)
             from == at + Len(S_CorePound)
             n    == DigitRun(name, from)
         IN  IF n = 0 THEN <<>>
             ELSE <<DigitsValue(SubSeq(name, from, from + n - 1), 0)>>

\* The core indices named by the valued temperature and load readings of a
\* sensor list.
NamedCoreIndices(sensors) ==
    {NumberAfterCorePound(sensors[k].name)[1] :
        k \in {j \in 1..Len(sensors) :
                 /\ sensors[j].has
                 /\ sensors[j].kind \in {"Temperature", "Load"}
                 /\ NumberAfterCorePound(sensors[j].name) # <<>>}}

\* The valued readings of one kind that name core n, in the order of the list.
NamingCore(sensors, kind, n) ==
    {k \in 1..Len(sensors) :
        /\ sensors[k].has /\ sensors[k].kind = kind
        /\ NumberAfterCorePound(sensors[k].name) = <<n>>}

\* The per-core map of one kind holds, at key n, the value of the last reading
\* of that kind that names core n.
KeyedAtNamedCore(sensors, kind, map) ==
    \A k \in 1..Len(sensors) :
        (/\ sensors[k].has /\ sensors[k].kind = kind
         /\ NumberAfterCorePound(sensors[k].name) # <<>>) =>
            LET n == NumberAfterCorePound(sensors[k].name)[1]
                last == CHOOSE j \in NamingCore(sensors, kind, n) :
                            \A i \in NamingCore(sensors, kind, n) : i <= j
            IN  /\ n \in DOMAIN map
                /\ map[n] = sensors[last].value

\* C20 (as claimed): every valued Temperature reading of the "Core #N" family
\* sets the per-core temperature map at key N, and every valued Load reading
\* of the family sets the per-core load map at key N.
C20_CoreFamilyKeyedAtN ==
    res # <<>> =>
        /\ KeyedAtNamedCore(hwIn.sensors, "Temperature", CpuPass(hwIn.sensors).coreTemps)
        /\ KeyedAtNamedCore(hwIn.sensors, "Load", CpuPass(hwIn.sensors).coreLoads)

\* What the code gives: a temperature whose name starts with "Core #N" and a
\* load whose name starts with "CPU Core #N" are keyed at N; a temperature
\* named "CPU Core #N" and a load named "Core #N" are keyed nowhere.
CoreKeysByPrefix ==
    res # <<>> =>
        \A k \in 1..Len(hwIn.sensors) :
            LET r == hwIn.sensors[k]
                n == NumberAfterCorePound(r.name)
            IN  (r.has /\ n # <<>>) =>
                    /\ (r.kind = "Temperature" /\ StartsWith(r.name, S_CorePound)) =>
                           n[1] \in DOMAIN CpuPass(hwIn.sensors).coreTemps
                    /\ (r.kind = "Load" /\ StartsWith(r.name, S_CpuCorePound)) =>
                           n[1] \in DOMAIN CpuPass(hwIn.sensors).coreLoads
                    /\ (r.kind = "Temperature" /\ StartsWith(r.name, S_CpuCorePound)
                           /\ NamingCore(hwIn.sensors, "Temperature", n[1]) = {k}) =>
                           n[1] \notin DOMAIN CpuPass(hwIn.sensors).coreTemps
                    /\ (r.kind = "Load" /\ StartsWith(r.name, S_CorePound)
                           /\ NamingCore(hwIn.sensors, "Load", n[1]) = {k}) =>
                           n[1] \notin DOMAIN CpuPass(hwIn.sensors).coreLoads

\* The values of the valued Temperature readings with an aggregate name: one
\* that contains "Package", "CPU" or "CCD" and is not a per-core ("Core #") name.
AggregateTemperatures(sensors) ==
    {sensors[k].value :
        k \in {j \in 1..Len(sensors) :
                 /\ sensors[j].has /\ sensors[j].kind = "Temperature"
                 /\ ~Contains(sensors[j].name, S_CorePound)
                 /\ \/ Contains(sensors[j].name, S_Package)
                    \/ Contains(sensors[j].name, S_CPU)
                    \/ Contains(sensors[j].name, S_CCD)}}

C7_CoresLengthOfNamedIndices ==
    (res # <<>> /\ NamedCoreIndices(hwIn.sensors) # {}) =>
        /\ res[1].cores # <<>>
        /\ Len(res[1].cores[1]) = 1 + MaxOf(NamedCoreIndices(hwIn.sensors))

\* What the extractor guarantees instead, with "index seen" read as "index the
\* extractor parsed out of the name": when the sensor list carries at least one core index (in a temperature
\* or a load reading), the cores list exists, its length is one plus the
\* largest index carried by either kind, and entry k carries index k - 1.
C7_CoresLength ==
    (res # <<>> /\ SeenIndices(hwIn.sensors) # {}) =>
        /\ res[1].cores # <<>>
        /\ Len(res[1].cores[1]) = 1 + MaxOf(SeenIndices(hwIn.sensors))
        /\ \A k \in 1..Len(res[1].cores[1]) : res[1].cores[1][k].index = k - 1

\* C7 witness: temperatures up to core 3 and loads up to core 4 give 5 entries.
C7_Witness ==
    /\ res # <<>>
    /\ SeenTempIndices(hwIn.sensors) = {1, 3}
    /\ SeenLoadIndices(hwIn.sensors) = {4}
    /\ Len(res[1].cores[1]) = 5

CoreEntries == IF res # <<>> /\ res[1].cores # <<>> THEN res[1].cores[1] ELSE <<>>

\* C8 (as claimed): an entry without a direct reading reports the aggregate, and
\* that is never zero.
C8_FallbackNeverZero ==
    \A k \in 1..Len(CoreEntries) :
        /\ (k - 1) \notin SeenTempIndices(hwIn.sensors) =>
               (CoreEntries[k].temperature = res[1].temperature
                /\ CoreEntries[k].temperature # 0)
        /\ (k - 1) \notin SeenLoadIndices(hwIn.sensors) =>
               (CoreEntries[k].load = res[1].load /\ CoreEntries[k].load # 0)

\* C8 (amended): an entry without a direct temperature reading reports the CPU
\* aggregate temperature and an entry without a direct load reading reports the
\* CPU aggregate load; such an entry reports zero exactly when the aggregate
\* itself is zero, which is the case when no aggregate reading was seen.
C8_FallbackIsAggregate ==
    \A k \in 1..Len(CoreEntries) :
        /\ (k - 1) \notin SeenTempIndices(hwIn.sensors) =>
               CoreEntries[k].temperature = res[1].temperature
        /\ (k - 1) \notin SeenLoadIndices(hwIn.sensors) =>
               CoreEntries[k].load = res[1].load

\* C8 witness: core 4 has a load reading and no temperature reading and reports
\* the aggregate temperature 75; core 0 has neither and reports 75 and 30.
C8_Witness ==
    /\ Len(CoreEntries) = 5
    /\ SeenTempIndices(hwIn.sensors) = {}
    /\ res[1].temperature = 75 /\ res[1].load = 30
    /\ CoreEntries[5].temperature = 75 /\ CoreEntries[5].load = 24
    /\ CoreEntries[1].temperature = 75 /\ CoreEntries[1].load = 30

---------------------------------------------------------------------------
\* ExtractData applied to a tree of root nodes.

MaxRoots == 3

S_SecondCpu == <<"A", "M", "D", " ", "E", "P", "Y", "C", " ", "7", "3", "0", "2">>
S_SecondBoard == <<"S", "u", "p", "e", "r", "m", "i", "c", "r", "o", " ", "H", "1", "1">>

RootNodes ==
    { Node(<<"R", "T", "X", " ", "3", "0", "8", "0">>, "GpuNvidia",
           << Reading(S_GpuCore, "Temperature", TRUE, 60),
              Reading(S_GpuCore, "Load", TRUE, 50),
              Reading(S_GpuMemoryUsed, "SmallData", TRUE, 2048) >>, <<>>),
      Node(<<"R", "a", "d", "e", "o", "n", " ", "R", "X">>, "GpuAmd",
           << Reading(S_GpuCore, "Temperature", TRUE, 65),
              Reading(S_GpuCore, "Clock", TRUE, 1800),
              Reading(S_GpuMemoryTotal, "SmallData", TRUE, 8192) >>, <<>>),
      Node(<<"U", "H", "D", " ", "6", "3", "0">>, "GpuIntel",
           << Reading(S_GPU, "Temperature", TRUE, 45) >>, <<>>),
      Node(S_IntelCpu, "Cpu",
           << Reading(<<"C", "P", "U", " ", "P", "a", "c", "k", "a", "g", "e">>, "Temperature", TRUE, 70),
              Reading(S_CpuTotal, "Load", TRUE, 30) >>, <<>>),
      Node(<<"W", "D", " ", "B", "l", "u", "e", " ", "5", "0", "0", "G", "B">>, "Storage",
           << Reading(S_Temperature, "Temperature", TRUE, 35) >>, <<>>),
      Node(<<"G", "e", "n", "e", "r", "i", "c", " ", "D", "i", "s", "k">>, "Storage",
           << Reading(S_Temperature, "Temperature", FALSE, 0) >>, <<>>),
      Node(<<"A", "S", "U", "S", " ", "P", "R", "I", "M", "E">>, "Motherboard", <<>>,
           << Node(<<"N", "u", "v", "o", "t", "o", "n", " ", "N", "C", "T", "6", "7", "9", "8", "D">>, "SuperIO",
                   << Reading(<<"V", "R", "M", " ", "M", "O", "S", " ", "T", "e", "m", "p", "e", "r", "a", "t", "u", "r", "e">>, "Temperature", TRUE, 55),
                      Reading(<<"F", "a", "n", " ", "#", "1">>, "Fan", TRUE, 900) >>, <<>>) >>),
      Node(S_SecondCpu, "Cpu",
           << Reading(<<"C", "P", "U", " ", "P", "a", "c", "k", "a", "g", "e">>, "Temperature", TRUE, 64),
              Reading(S_CpuTotal, "Load", TRUE, 12) >>, <<>>),
      Node(S_SecondBoard, "Motherboard",
           << Reading(<<"S", "y", "s", "t", "e", "m">>, "Temperature", TRUE, 41),
              Reading(<<"F", "a", "n", " ", "#", "2">>, "Fan", TRUE, 700) >>, <<>>),
      Node(<<"G", "e", "n", "e", "r", "i", "c", " ", "M", "e", "m", "o", "r", "y">>, "Memory",
           << Reading(<<"M", "e", "m", "o", "r", "y">>, "Load", TRUE, 40) >>, <<>>) }

TreeInputs == SeqsUpTo(RootNodes, MaxRoots)

InitTree ==
    /\ ProcIdle
    /\ hwIn \in TreeInputs
    /\ res = <<>>

RunExtractData ==
    /\ res = <<>>
    /\ res' = <<ExtractData(hwIn)>>
    /\ UNCHANGED hwIn
    /\ UNCHANGED procVars

NextTree == RunExtractData

SpecTree == InitTree /\ [][NextTree]_vars

\* The positions of the GPU-type root nodes of a tree, and the first of them.
GpuPositions(tree) == {i \in 1..Len(tree) : tree[i].type \in GpuTypes}
FirstGpu(tree) == CHOOSE i \in GpuPositions(tree) : \A j \in GpuPositions(tree) : i <= j

\* The tree without the GPU-type nodes that follow the first one.
RECURSIVE KeepFirstGpu(_, _)
KeepFirstGpu(tree, seen) ==
    IF tree = <<>> THEN <<>>
    ELSE IF Head(tree).type \in GpuTypes
         THEN (IF seen THEN <<>> ELSE <<Head(tree)>>) \o KeepFirstGpu(Tail(tree), TRUE)
         ELSE <<Head(tree)>> \o KeepFirstGpu(Tail(tree), seen)

Fields(data) ==
    [cpu |-> data.cpu, gpu |-> data.gpu, storage |-> data.storage,
     motherboard |-> data.motherboard]

RECURSIVE CallsOf(_, _)
CallsOf(extractor, calls) ==
    IF calls = <<>> THEN <<>>
    ELSE IF Head(calls)[1] = extractor
         THEN <<Head(calls)[2]>> \o CallsOf(extractor, Tail(calls))
         ELSE CallsOf(extractor, Tail(calls))

\* C9: for a tree with two or more GPU-type root nodes, the gpu field is the
\* extraction of the first of them, the GPU extractor is invoked on that node
\* and on no other, and the snapshot is the one the tree gives with the later
\* GPU nodes taken out (nothing of them reaches it).
C9_FirstGpuOnly ==
    (res # <<>> /\ Cardinality(GpuPositions(hwIn)) >= 2) =>
        /\ res[1].gpu = <<ExtractGpuData(hwIn[FirstGpu(hwIn)])>>
        /\ CallsOf("gpu", res[1].calls) = <<FirstGpu(hwIn)>>
        /\ Fields(res[1]) = Fields(ExtractData(KeepFirstGpu(hwIn, FALSE)))

\* C9 witness: an AMD GPU followed by an NVIDIA GPU; the snapshot carries the
\* AMD node's readings and none of the NVIDIA node's.
C9_Witness ==
    /\ res # <<>>
    /\ Len(hwIn) = 3
    /\ hwIn[1].type = "GpuAmd" /\ hwIn[2].type = "GpuNvidia" /\ hwIn[3].type = "Cpu"
    /\ res[1].gpu[1].name = <<"R", "a", "d", "e", "o", "n", " ", "R", "X">>
    /\ res[1].gpu[1].temperature = 65
    /\ res[1].gpu[1].load = 0
    /\ res[1].gpu[1].memoryUsed = Zero

\* The Storage-type root nodes of a tree, in traversal order.
RECURSIVE StorageNodes(_)
StorageNodes(tree) ==
    IF tree = <<>> THEN <<>>
    ELSE (IF Head(tree).type = "Storage" THEN <<Head(tree)>> ELSE <<>>)
             \o StorageNodes(Tail(tree))

S_GenericDisk == <<"G", "e", "n", "e", "r", "i", "c", " ", "D", "i", "s", "k">>

\* C17: the storage list of the snapshot has one entry per Storage-type root
\* node, in traversal order, each with its node's name (the list is absent
\* when the tree has no such node); a node without temperature, usage and
\* capacity still has its entry, with the three figures 0.
C17_OneEntryPerStorageNode ==
    (res # <<>> /\ ~IsRaised(res[1])) =>
        LET nodes == StorageNodes(hwIn)
        IN  IF nodes = <<>> THEN res[1].storage = <<>>
            ELSE /\ res[1].storage # <<>>
                 /\ Len(res[1].storage[1]) = Len(nodes)
                 /\ \A k \in 1..Len(nodes) :
                        /\ res[1].storage[1][k].name = nodes[k].name
                        /\ nodes[k].name = S_GenericDisk =>
                               res[1].storage[1][k] =
                                   [name |-> S_GenericDisk, temperature |-> 0,
                                    usedPercent |-> 0, totalSpace |-> Zero]

\* C17 witness: a drive without any figure, a CPU and a second drive; the list
\* has the two drives in that order, the first with three zeros.
C17_Witness ==
    /\ res # <<>>
    /\ Len(hwIn) = 3
    /\ hwIn[1].name = S_GenericDisk /\ hwIn[2].type = "Cpu" /\ hwIn[3].type = "Storage"
    /\ hwIn[3].name # S_GenericDisk
    /\ Len(res[1].storage[1]) = 2
    /\ res[1].storage[1][1].temperature = 0
    /\ res[1].storage[1][1].totalSpace = Zero
    /\ res[1].storage[1][2].totalSpace = Whole(500)

\* The positions of the root nodes of a type, in order, and the last of them.
PositionsOfType(tree, type) == {i \in 1..Len(tree) : tree[i].type = type}

RECURSIVE InOrder(_)
InOrder(positions) ==
    IF positions = {} THEN <<>>
    ELSE LET least == CHOOSE i \in positions : \A j \in positions : i <= j
         IN  <<least>> \o InOrder(positions \ {least})

LastOfType(tree, type) ==
    CHOOSE i \in PositionsOfType(tree, type) :
        \A j \in PositionsOfType(tree, type) : j <= i

\* C29: for a tree with several Cpu root nodes the cpu field is the extraction
\* of the last of them and the CPU extractor is invoked on each of them in
\* order; likewise for several Motherboard root nodes and the motherboard
\* field.  (The gpu field, by contrast, keeps the first GPU node.)
C29_LastCpuAndMotherboardWin ==
    res # <<>> =>
        /\ Cardinality(PositionsOfType(hwIn, "Cpu")) >= 2 =>
              /\ res[1].cpu = <<ExtractCpuData(hwIn[LastOfType(hwIn, "Cpu")])>>
              /\ CallsOf("cpu", res[1].calls) = InOrder(PositionsOfType(hwIn, "Cpu"))
        /\ Cardinality(PositionsOfType(hwIn, "Motherboard")) >= 2 =>
              /\ res[1].motherboard =
                     <<ExtractMotherboardData(hwIn[LastOfType(hwIn, "Motherboard")])>>
              /\ CallsOf("motherboard", res[1].calls) =
                     InOrder(PositionsOfType(hwIn, "Motherboard"))

\* C29 witness: two different Cpu nodes with a Motherboard node between them;
\* the cpu field is the second one's record (not the first one's) and the CPU
\* extractor ran on both.
C29_Witness ==
    /\ res # <<>>
    /\ Len(hwIn) = 3
    /\ hwIn[1].type = "Cpu" /\ hwIn[2].type = "Motherboard" /\ hwIn[3].type = "Cpu"
    /\ hwIn[1].name = S_IntelCpu /\ hwIn[3].name = S_SecondCpu
    /\ res[1].cpu[1].name = S_SecondCpu
    /\ res[1].cpu[1].temperature = 64
    /\ CallsOf("cpu", res[1].calls) = <<1, 3>>

---------------------------------------------------------------------------
\* ExtractStorageData applied to a storage node.

MaxStorageSensors == 2

S_Samsung980 == <<"S", "a", "m", "s", "u", "n", "g", " ", "S", "S", "D", " ", "9", "8", "0", " ", "P", "R", "O", " ", "1", "T", "B">>

StorageNames ==
    { S_Samsung980,
      <<"W", "D", " ", "B", "l", "u", "e", " ", "5", "0", "0", "G", "B">>,
      <<"6", "0", "0", " ", "T", "B", "W", " ", "1", "T", "B">>,
      <<"W", "D", " ", "B", "l", "u", "e", " ", "5", "0", "0", "g", "b">>,
      <<"T", "B", "3", " ", "D", "o", "c", "k", " ", "2", "5", "6", "G", "B">>,
      <<"G", "e", "n", "e", "r", "i", "c", " ", "D", "i", "s", "k">>,
      <<"D", "i", "s", "k", " ", "1", ".", "5", "T", "B">>,
      <<"S", "T", "4", "0", "0", "0", " ", "4", " ", "T", "B">> }

StorageReadings ==
    { Reading(S_Temperature, "Temperature", TRUE, 35),
      Reading(<<"T", "e", "m", "p", "e", "r", "a", "t", "u", "r", "e", " ", "2">>, "Temperature", TRUE, 120),
      Reading(S_Temperature, "Temperature", FALSE, 0),
      Reading(<<"A", "i", "r", "f", "l", "o", "w", " ", "T", "e", "m", "p", "e", "r", "a", "t", "u", "r", "e">>, "Level", TRUE, 40),
      Reading(<<"R", "e", "m", "a", "i", "n", "i", "n", "g", " ", "L", "i", "f", "e">>, "Level", TRUE, 90),
      Reading(S_UsedSpace, "Load", TRUE, 55),
      Reading(<<"D", "a", "t", "a", " ", "W", "r", "i", "t", "t", "e", "n">>, "Data", TRUE, 7000) }

StorageSubNodes ==
    { <<>>,
      << Node(<<"C", "o", "n", "t", "r", "o", "l", "l", "e", "r">>, "Storage",
              << Reading(S_Temperature, "Temperature", TRUE, 38) >>, <<>>) >> }

StorageInputs ==
    {Node(n, "Storage", ss, sub) :
        n \in StorageNames, ss \in SeqsUpTo(StorageReadings, MaxStorageSensors),
        sub \in StorageSubNodes}

InitStorage ==
    /\ ProcIdle
    /\ hwIn \in StorageInputs
    /\ res = <<>>

RunExtractStorage ==
    /\ res = <<>>
    /\ res' = <<ExtractStorageData(hwIn)>>
    /\ UNCHANGED hwIn
    /\ UNCHANGED procVars

NextStorage == RunExtractStorage

SpecStorage == InitStorage /\ [][NextStorage]_vars

\* The readings of a list of nodes, node after node.
RECURSIVE ReadingsOfNodes(_)
ReadingsOfNodes(nodes) ==
    IF nodes = <<>> THEN <<>>
    ELSE Head(nodes).sensors \o ReadingsOfNodes(Tail(nodes))

\* The readings of a drive in scan order: the node, then its direct sub-nodes.
StorageReadingsInOrder(hw) == hw.sensors \o ReadingsOfNodes(hw.sub)

IsPlausibleDriveTemperature(r) ==
    /\ r.has /\ r.kind = "Temperature" /\ r.value > 0 /\ r.value < 100

IsPlausibleLevelTemperature(r) ==
    /\ r.has /\ r.kind = "Level" /\ r.value > 0 /\ r.value < 100
    /\ Contains(ToLower(r.name), <<"t", "e", "m", "p">>)

\* C24: the storage temperature is the value of the first Temperature reading
\* in (0,100) of the node or its sub-nodes whenever there is one, wherever the
\* Level readings stand; a Level reading with "temp" in its name supplies it
\* only when there is none (the first such Level reading), and it is 0 when
\* there is neither.
C24_TemperatureKindBeforeLevel ==
    (res # <<>> /\ ~IsRaised(res[1])) =>
        LET temps == SelectSeq(StorageReadingsInOrder(hwIn), IsPlausibleDriveTemperature)
            levels == SelectSeq(StorageReadingsInOrder(hwIn), IsPlausibleLevelTemperature)
        IN  res[1].temperature =
                IF temps # <<>> THEN temps[1].value
                ELSE IF levels # <<>> THEN levels[1].value
                ELSE 0

\* What the code does: the first plausible reading of either kind, in scan
\* order, supplies the temperature.
IsPlausibleEitherKind(r) ==
    IsPlausibleDriveTemperature(r) \/ IsPlausibleLevelTemperature(r)

FirstPlausibleOfEitherKind ==
    (res # <<>> /\ ~IsRaised(res[1])) =>
        LET any == SelectSeq(StorageReadingsInOrder(hwIn), IsPlausibleEitherKind)
        IN  res[1].temperature = IF any # <<>> THEN any[1].value ELSE 0

\* A Level reading "Airflow Temperature" = 40 listed before the Temperature
\* reading 35 does not supply the temperature.
LevelBeforeTemperatureIgnored ==
    (/\ res # <<>>
     /\ Len(hwIn.sensors) = 2
     /\ hwIn.sensors[1].kind = "Level" /\ hwIn.sensors[1].value = 40
     /\ hwIn.sensors[2].kind = "Temperature" /\ hwIn.sensors[2].value = 35)
        => res[1].temperature = 35

\* The last space-delimited word of a name.
RECURSIVE LastWord(_)
LastWord(s) ==
    IF s = <<>> THEN <<>>
    ELSE IF s[Len(s)] = " " THEN <<>>
         ELSE LastWord(SubSeq(s, 1, Len(s) - 1)) \o <<s[Len(s)]>>

\* w is digits, or digits "." digits.
IsNumber(w) ==
    \/ AllDigits(w)
    \/ /\ DotPos(w, 1) > 0
       /\ AllDigits(SubSeq(w, 1, DotPos(w, 1) - 1))
       /\ AllDigits(SubSeq(w, DotPos(w, 1) + 1, Len(w)))

\* The name ends in a "<number>TB" token; the number of that token.
EndsInTbToken(name) ==
    LET w == LastWord(name)
    IN  /\ Len(w) >= 3
        /\ SubSeq(w, Len(w) - 1, Len(w)) = S_TB
        /\ IsNumber(SubSeq(w, 1, Len(w) - 2))

TrailingTbNumber(name) ==
    LET w == LastWord(name) IN ParseFloat(SubSeq(w, 1, Len(w) - 2))

\* C10 (as claimed): a storage node whose name ends in a "<number>TB" token has
\* totalSpace equal to that number times 1024, whatever its sensors.
C10_TrailingTbTimes1024 ==
    (res # <<>> /\ EndsInTbToken(hwIn.name)) =>
        RatEq(res[1].totalSpace,
              [num |-> TrailingTbNumber(hwIn.name).num * 1024,
               den |-> TrailingTbNumber(hwIn.name).den])

\* The instance the specification names: "Samsung SSD 980 PRO 1TB" gives 1024,
\* whatever the sensors of the node.
Samsung980Gives1024 ==
    (res # <<>> /\ hwIn.name = S_Samsung980) => res[1].totalSpace = Whole(1024)

\* The trailing capacity token of a display name: the name ends in "TB" or "GB"
\* in any letter case, preceded (after optional spaces) by a number.
TrailingUnit(name) ==
    IF Len(name) < 2 THEN "none"
    ELSE IF ToLower(SubSeq(name, Len(name) - 1, Len(name))) = ToLower(S_TB) THEN "TB"
    ELSE IF ToLower(SubSeq(name, Len(name) - 1, Len(name))) = ToLower(S_GB) THEN "GB"
    ELSE "none"

\* The longest suffix of s made of digits and ".".
RECURSIVE NumberTail(_)
NumberTail(s) ==
    IF s = <<>> THEN <<>>
    ELSE IF IsDigit(s[Len(s)]) \/ s[Len(s)] = "."
         THEN NumberTail(SubSeq(s, 1, Len(s) - 1)) \o <<s[Len(s)]>>
         ELSE <<>>

\* <<>> when the name has no trailing capacity token, otherwise the capacity
\* in GB that the token states.
TrailingCapacity(name) ==
    LET unit == TrailingUnit(name)
        num  == IF unit = "none" THEN <<>>
                ELSE NumberTail(TrimRight(SubSeq(name, 1, Len(name) - 2)))
    IN  IF unit = "none" \/ ~IsNumber(num) THEN <<>>
        ELSE IF unit = "TB"
             THEN <<[num |-> ParseFloat(num).num * 1024, den |-> ParseFloat(num).den]>>
             ELSE <<ParseFloat(num)>>

\* C11 (as claimed): for every storage display name, totalSpace is what the
\* trailing capacity token states (the number for GB, the number times 1024
\* for TB, in any letter case and whatever else the name contains), and it is
\* 0 exactly when the name has no such token.
C11_TotalSpaceFromTrailingToken ==
    res # <<>> =>
        /\ TrailingCapacity(hwIn.name) # <<>> =>
               RatEq(res[1].totalSpace, TrailingCapacity(hwIn.name)[1])
        /\ (res[1].totalSpace.num = 0) <=> (TrailingCapacity(hwIn.name) = <<>>)

\* What the code does give: the names whose capacity it reads as the trailing
\* token states are those with no other "<number> TB" before the token, an
\* upper-case unit, and no "TB" in front of a GB token.
C11_PlainNamesAgree ==
    (res # <<>> /\ hwIn.name \in
        { S_Samsung980,
          <<"W", "D", " ", "B", "l", "u", "e", " ", "5", "0", "0", "G", "B">>,
          <<"G", "e", "n", "e", "r", "i", "c", " ", "D", "i", "s", "k">>,
          <<"D", "i", "s", "k", " ", "1", ".", "5", "T", "B">>,
          <<"S", "T", "4", "0", "0", "0", " ", "4", " ", "T", "B">> }) =>
        /\ TrailingCapacity(hwIn.name) # <<>> =>
               RatEq(res[1].totalSpace, TrailingCapacity(hwIn.name)[1])
        /\ (res[1].totalSpace.num = 0) <=> (TrailingCapacity(hwIn.name) = <<>>)

\* The two names on which the code departs from the trailing token for reasons
\* of its own: the case-sensitive guard name.Contains("GB") misses "500gb", and
\* the guard name.Contains("TB") takes "TB3 Dock 256GB" into the TB branch,
\* where nothing matches and the GB branch is never tried.
LowerCaseUnitGivesZero ==
    (res # <<>> /\ hwIn.name = <<"W", "D", " ", "B", "l", "u", "e", " ", "5", "0", "0", "g", "b">>)
        => res[1].totalSpace = Zero

TbElsewhereHidesGb ==
    (res # <<>> /\ hwIn.name = <<"T", "B", "3", " ", "D", "o", "c", "k", " ", "2", "5", "6", "G", "B">>)
        => res[1].totalSpace = Zero

---------------------------------------------------------------------------
\* ExtractMotherboardData applied to a motherboard node.

MaxMbSensors == 2

S_VrmMosTemperature == <<"V", "R", "M", " ", "M", "O", "S", " ", "T", "e", "m", "p", "e", "r", "a", "t", "u", "r", "e">>
S_CpuPackage == <<"C", "P", "U", " ", "P", "a", "c", "k", "a", "g", "e">>
S_AsusPrime == <<"A", "S", "U", "S", " ", "P", "R", "I", "M", "E">>
S_SuperIO == <<"N", "u", "v", "o", "t", "o", "n", " ", "N", "C", "T", "6", "7", "9", "8", "D">>
S_EC == <<"E", "C">>

S_SecondChip == <<"N", "u", "v", "o", "t", "o", "n", " ", "N", "C", "T", "6", "6", "8", "7", "D">>

MbReadings ==
    { Reading(S_VrmMosTemperature, "Temperature", TRUE, 55),
      Reading(S_CpuPackage, "Temperature", TRUE, 70),
      Reading(<<"C", "o", "r", "e", " ", "M", "a", "x">>, "Temperature", TRUE, 62),
      Reading(<<"T", "e", "m", "p", "e", "r", "a", "t", "u", "r", "e", " ", "#", "1">>, "Temperature", TRUE, 40),
      Reading(<<"T", "_", "S", "e", "n", "s", "o", "r">>, "Temperature", TRUE, 33),
      Reading(<<"S", "y", "s", "t", "e", "m">>, "Temperature", TRUE, 200),
      Reading(<<"P", "C", "H">>, "Temperature", TRUE, 0),
      Reading(<<"C", "h", "i", "p", "s", "e", "t">>, "Temperature", FALSE, 0),
      Reading(<<"F", "a", "n", " ", "#", "1">>, "Fan", TRUE, 900),
      Reading(<<"F", "a", "n", " ", "#", "2">>, "Fan", TRUE, 0),
      Reading(<<"F", "a", "n", " ", "#", "3">>, "Fan", FALSE, 0) }

\* The sub-hardware of the node: none; the SuperIO chip of the example; a chip
\* with a nested controller; a nested controller with a node of its own (depth
\* three); a chip whose Update() raises; a nested controller whose Update()
\* raises; two chips, the first with a nested controller.
MbSubTrees ==
    { <<>>,
      << Node(S_SuperIO, "SuperIO",
              << Reading(S_VrmMosTemperature, "Temperature", TRUE, 55),
                 Reading(S_CpuPackage, "Temperature", TRUE, 70) >>, <<>>) >>,
      << Node(S_SuperIO, "SuperIO",
              << Reading(S_CpuPackage, "Temperature", TRUE, 70) >>,
              << Node(S_EC, "EmbeddedController",
                      << Reading(<<"T", "_", "S", "e", "n", "s", "o", "r">>, "Temperature", TRUE, 36),
                         Reading(<<"F", "a", "n", " ", "#", "4">>, "Fan", TRUE, 1200) >>, <<>>) >>) >>,
      << Node(S_SuperIO, "SuperIO", <<>>,
              << Node(S_EC, "EmbeddedController", <<>>,
                      << Node(<<"E", "C", " ", "P", "r", "o", "b", "e">>, "EmbeddedController",
                              << Reading(<<"T", "e", "m", "p", "e", "r", "a", "t", "u", "r", "e", " ", "#", "2">>, "Temperature", TRUE, 44) >>,
                              <<>>) >>) >>) >>,
      << BrokenNode(S_SuperIO, "SuperIO",
                    << Reading(S_VrmMosTemperature, "Temperature", TRUE, 55) >>, <<>>) >>,
      << Node(S_SuperIO, "SuperIO",
              << Reading(<<"F", "a", "n", " ", "#", "1">>, "Fan", TRUE, 900) >>,
              << BrokenNode(S_EC, "EmbeddedController", <<>>, <<>>) >>) >>,
      << Node(S_SuperIO, "SuperIO",
              << Reading(<<"F", "a", "n", " ", "#", "1">>, "Fan", TRUE, 900) >>,
              << Node(S_EC, "EmbeddedController",
                      << Reading(<<"F", "a", "n", " ", "#", "4">>, "Fan", TRUE, 1200),
                         Reading(<<"T", "_", "S", "e", "n", "s", "o", "r">>, "Temperature", TRUE, 36) >>, <<>>) >>),
         Node(S_SecondChip, "SuperIO",
              << Reading(<<"F", "a", "n", " ", "#", "1">>, "Fan", TRUE, 1000),
                 Reading(<<"T", "_", "S", "e", "n", "s", "o", "r">>, "Temperature", TRUE, 30) >>, <<>>) >> }

MbInputs ==
    {Node(S_AsusPrime, "Motherboard", ss, sub) :
        ss \in SeqsUpTo(MbReadings, MaxMbSensors), sub \in MbSubTrees}

InitMb ==
    /\ ProcIdle
    /\ hwIn \in MbInputs
    /\ res = <<>>

RunExtractMotherboard ==
    /\ res = <<>>
    /\ res' = <<ExtractMotherboardData(hwIn)>>
    /\ UNCHANGED hwIn
    /\ UNCHANGED procVars

NextMb == RunExtractMotherboard

SpecMb == InitMb /\ [][NextMb]_vars

RECURSIVE SubNodesOf(_)
SubNodesOf(nodes) ==
    IF nodes = <<>> THEN <<>> ELSE Head(nodes).sub \o SubNodesOf(Tail(nodes))

\* The readings found on a node, its direct sub-nodes and their sub-nodes.
ReadingsToDepthTwo(hw) ==
    hw.sensors \o ReadingsOfNodes(hw.sub) \o ReadingsOfNodes(SubNodesOf(hw.sub))

IsBoardTemperature(r) ==
    /\ r.has /\ r.kind = "Temperature"
    /\ ~Contains(r.name, S_CPU) /\ ~Contains(r.name, S_Core)
    /\ r.value > 0 /\ r.value < 150

MbExample ==
    Node(S_AsusPrime, "Motherboard", <<>>,
         << Node(S_SuperIO, "SuperIO",
                 << Reading(S_VrmMosTemperature, "Temperature", TRUE, 55),
                    Reading(S_CpuPackage, "Temperature", TRUE, 70) >>, <<>>) >>)

\* C12: the motherboard temperature is 0 or the value of a Temperature reading
\* of the node, a direct sub-node or a nested sub-node whose name contains
\* neither "CPU" nor "Core" and whose value lies strictly between 0 and 150;
\* the node with no sensors of its own whose sub-node has "VRM MOS
\* Temperature" = 55 and "CPU Package" = 70 gives 55.
C12_MotherboardTemperatureSource ==
    (res # <<>> /\ ~IsRaised(res[1])) =>
        /\ \/ res[1].temperature = 0
           \/ \E k \in 1..Len(ReadingsToDepthTwo(hwIn)) :
                  /\ IsBoardTemperature(ReadingsToDepthTwo(hwIn)[k])
                  /\ ReadingsToDepthTwo(hwIn)[k].value = res[1].temperature
        /\ hwIn = MbExample => res[1].temperature = 55

\* C12 witness: the example of the specification has been extracted and gave 55.
C12_Witness ==
    /\ res # <<>>
    /\ hwIn = MbExample
    /\ res[1].temperature = 55

\* The readings in the order the extractor scans them: the node, then each
\* direct sub-node followed at once by its own sub-nodes.
RECURSIVE ReadingsOfSubHardware(_)
ReadingsOfSubHardware(subs) ==
    IF subs = <<>> THEN <<>>
    ELSE Head(subs).sensors \o ReadingsOfNodes(Head(subs).sub)
             \o ReadingsOfSubHardware(Tail(subs))

ReadingsInTraversalOrder(hw) == hw.sensors \o ReadingsOfSubHardware(hw.sub)

\* The motherboard temperature candidates, in traversal order.
TemperatureCandidates(hw) ==
    SelectSeq(ReadingsInTraversalOrder(hw), IsBoardTemperature)

IsPriorityCandidate(r) == IsPreferredTemperature(r.name)

\* C22: the motherboard temperature is the value of the first candidate, in
\* traversal order, whose name matches the priority list; without such a
\* candidate it is the value of the first candidate; without a candidate it
\* is 0.
C22_FirstPriorityCandidateElseFirst ==
    (res # <<>> /\ ~IsRaised(res[1])) =>
        LET cands == TemperatureCandidates(hwIn)
            prio == SelectSeq(cands, IsPriorityCandidate)
        IN  res[1].temperature =
                IF prio # <<>> THEN prio[1].value
                ELSE IF cands # <<>> THEN cands[1].value
                ELSE 0

\* C22 witness: a candidate outside the priority list ("T_Sensor" = 33) comes
\* before one inside it ("VRM MOS Temperature" = 55), and 55 is reported; and
\* on the board with two chips no candidate matches the list and the first in
\* traversal order (36, on the nested controller of the first chip) is.
C22_Witness ==
    /\ res # <<>> /\ ~IsRaised(res[1])
    /\ \/ /\ hwIn.sub = <<>>
          /\ Len(hwIn.sensors) = 2
          /\ hwIn.sensors[1].value = 33 /\ ~IsPriorityCandidate(hwIn.sensors[1])
          /\ hwIn.sensors[2].name = S_VrmMosTemperature
          /\ res[1].temperature = 55
       \/ /\ Len(hwIn.sub) = 2 /\ hwIn.sensors = <<>>
          /\ res[1].temperature = 36

\* The valued Fan readings with a speed above 0 among a list of readings, as
\* fan entries.
RECURSIVE FanEntries(_)
FanEntries(rs) ==
    IF rs = <<>> THEN <<>>
    ELSE (IF Head(rs).has /\ Head(rs).kind = "Fan" /\ Head(rs).value > 0
          THEN <<[name |-> Head(rs).name, speed |-> Head(rs).value]>> ELSE <<>>)
             \o FanEntries(Tail(rs))

\* C23 (as claimed): the fans list is the valued Fan readings with a speed
\* above 0 of the node, then of every direct sub-node, then of every sub-node
\* of those sub-nodes, in that order.
C23_FansLevelByLevel ==
    (res # <<>> /\ ~IsRaised(res[1])) =>
        res[1].fans = FanEntries(ReadingsToDepthTwo(hwIn))

\* C23 (amended): the fans list is the valued Fan readings with a speed above
\* 0 of the node and then of each direct sub-node followed at once by that
\* sub-node's own sub-nodes; one entry per reading, equal names included, and
\* nothing from a node deeper than two levels.
C23_FansInScanOrder ==
    (res # <<>> /\ ~IsRaised(res[1])) =>
        res[1].fans = FanEntries(ReadingsInTraversalOrder(hwIn))

\* C23 witness: two chips, the first with a nested controller; the list is
\* "Fan #1" 900 (first chip), "Fan #4" 1200 (its controller), "Fan #1" 1000
\* (second chip): two entries of one name, the controller before the second
\* chip.
C23_Witness ==
    /\ res # <<>> /\ ~IsRaised(res[1])
    /\ Len(hwIn.sub) = 2 /\ hwIn.sensors = <<>>
    /\ Len(res[1].fans) = 3
    /\ res[1].fans[1].speed = 900 /\ res[1].fans[2].speed = 1200
    /\ res[1].fans[3].speed = 1000
    /\ res[1].fans[1].name = res[1].fans[3].name

---------------------------------------------------------------------------
\* Main applied to an argument vector.

MaxArgLen == 3

ArgAlphabet == {"0", "1", "5", "9", "-", "+", " ", "x"}

ArgTexts ==
    SeqsUpTo(ArgAlphabet, MaxArgLen) \cup
    { <<"1", "0", "0", "0">>, <<"1", ".", "5">>, Int32MaxDigits, Int32MinDigits, <<"-">> \o Int32MinDigits,
      <<"9", "9", "9", "9", "9", "9", "9", "9", "9", "9", "9">>, <<"2", "5", "0", "m", "s">> }

ArgVectors ==
    {<<>>, <<S_DebugFlag>>, <<S_DaemonFlag>>, <<<<"-", "-", "o", "n", "c", "e">>>>}
        \cup {<<S_DaemonFlag, a>> : a \in ArgTexts}
        \cup {<<S_DaemonFlag, <<"5", "0", "0">>, a>> : a \in {<<"5", "0">>, <<"x">>}}

InitMain ==
    /\ ProcIdle
    /\ hwIn \in ArgVectors
    /\ res = <<>>

RunMain ==
    /\ res = <<>>
    /\ res' = <<MainOf(hwIn)>>
    /\ UNCHANGED hwIn
    /\ UNCHANGED procVars

NextMain == RunMain

SpecMain == InitMain /\ [][NextMain]_vars

\* C16: the daemon's interval is 1000 when there is no interval argument or
\* int.TryParse rejects it, the larger of 100 and n when the argument parses as
\* n, and at least 100 for every argument vector; "50" gives 100, "500" gives
\* 500, "100" gives 100, "-1" gives 100, "x" and "1.5" give 1000.
C16_IntervalClamped ==
    (res # <<>> /\ res[1].mode = "daemon") =>
        LET interval == res[1].intervalMs[1]
            arg == IF Len(hwIn) > 1 THEN hwIn[2] ELSE <<"x">>
        IN  /\ interval >= 100
            /\ Len(hwIn) = 1 => interval = 1000
            /\ (Len(hwIn) > 1 /\ TryParseInt(arg) = <<>>) => interval = 1000
            /\ (Len(hwIn) > 1 /\ TryParseInt(arg) # <<>>) =>
                   interval = (IF TryParseInt(arg)[1] < 100 THEN 100
                               ELSE TryParseInt(arg)[1])
            /\ (Len(hwIn) > 1 /\ arg = <<"5", "0">>) => interval = 100
            /\ (Len(hwIn) > 1 /\ arg = <<"5", "0", "0">>) => interval = 500
            /\ (Len(hwIn) > 1 /\ arg = <<"1", "0", "0">>) => interval = 100
            /\ (Len(hwIn) > 1 /\ arg = <<"-", "1">>) => interval = 100
            /\ (Len(hwIn) > 1 /\ arg \in {<<"x">>, <<"1", ".", "5">>, <<>>}) => interval = 1000

\* C16 witness: "--daemon 50" has been dispatched with an interval of 100.
C16_Witness ==
    /\ res # <<>>
    /\ hwIn = <<S_DaemonFlag, <<"5", "0">>>>
    /\ res[1] = [mode |-> "daemon", intervalMs |-> <<100>>]

---------------------------------------------------------------------------
\* ExtractData applied to a tree of one node of any of the four extracted
\* types, with the node's readings drawn freely.

MaxGpuSensors == 2

S_Rtx3080 == <<"R", "T", "X", " ", "3", "0", "8", "0">>

GpuReadings ==
    { Reading(S_GpuCore, "Temperature", TRUE, 60),
      Reading(S_GpuCore, "Temperature", FALSE, 0),
      Reading(S_Temperature, "Temperature", TRUE, 61),
      Reading(<<"G", "P", "U", " ", "H", "o", "t", " ", "S", "p", "o", "t">>, "Temperature", TRUE, 80),
      Reading(S_GPU, "Load", TRUE, 50),
      Reading(S_GPU, "Load", FALSE, 0),
      Reading(S_GpuCore, "Clock", TRUE, 1800),
      Reading(S_GpuMemoryUsed, "SmallData", TRUE, 2048),
      Reading(S_GpuMemoryTotal, "SmallData", FALSE, 0) }

GpuInputs ==
    {Node(S_Rtx3080, "GpuNvidia", ss, <<>>) : ss \in SeqsUpTo(GpuReadings, MaxGpuSensors)}

\* Drives whose sub-node's Update() raises.
BrokenStorageInputs ==
    {Node(n, "Storage", <<Reading(S_Temperature, "Temperature", TRUE, 35)>>,
          <<BrokenNode(<<"C", "o", "n", "t", "r", "o", "l", "l", "e", "r">>, "Storage",
                       <<>>, <<>>)>>) : n \in StorageNames}

NodeInputs ==
    CpuInputs \cup GpuInputs \cup MbInputs \cup StorageInputs \cup BrokenStorageInputs

InitNode ==
    /\ ProcIdle
    /\ hwIn \in {<<n>> : n \in NodeInputs}
    /\ res = <<>>

RunExtractNode ==
    /\ res = <<>>
    /\ res' = <<ExtractData(hwIn)>>
    /\ UNCHANGED hwIn
    /\ UNCHANGED procVars

NextNode == RunExtractNode

SpecNode == InitNode /\ [][NextNode]_vars

\* A list of readings without its valueless readings, and a tree without the
\* valueless readings of any of its nodes.
RECURSIVE ValuedOnly(_)
ValuedOnly(sensors) ==
    IF sensors = <<>> THEN <<>>
    ELSE (IF Head(sensors).has THEN <<Head(sensors)>> ELSE <<>>)
             \o ValuedOnly(Tail(sensors))

RECURSIVE WithoutValueless(_)
WithoutValueless(nodes) ==
    IF nodes = <<>> THEN <<>>
    ELSE <<[Head(nodes) EXCEPT !.sensors = ValuedOnly(@),
                               !.sub = WithoutValueless(@)]>>
             \o WithoutValueless(Tail(nodes))

RECURSIVE HasValueless(_)
HasValueless(nodes) ==
    /\ nodes # <<>>
    /\ \/ \E k \in 1..Len(Head(nodes).sensors) : ~Head(nodes).sensors[k].has
       \/ HasValueless(Head(nodes).sub)
       \/ HasValueless(Tail(nodes))

\* C18: the outcome of the extraction of a tree is the outcome of the
\* extraction of the same tree with every valueless reading taken out, for a
\* node of each of the four extracted types.
C18_ValuelessReadingsInert ==
    res # <<>> => res[1] = ExtractData(WithoutValueless(hwIn))

\* C18 witness: a CPU node with a valued "Core #1" temperature and a valueless
\* "Core #5" temperature; the cores list has two entries, not six.
C18_Witness ==
    /\ res # <<>>
    /\ Len(hwIn) = 1 /\ hwIn[1].type = "Cpu"
    /\ HasValueless(hwIn)
    /\ Len(hwIn[1].sensors) = 2
    /\ hwIn[1].sensors[1].name = <<"C", "o", "r", "e", " ", "#", "1">> /\ hwIn[1].sensors[1].has
    /\ hwIn[1].sensors[2].name = <<"C", "o", "r", "e", " ", "#", "5">> /\ ~hwIn[1].sensors[2].has
    /\ Len(res[1].cpu[1].cores[1]) = 2

\* Some node of the list has updateFails set.
AnyUpdateFails(nodes) == \E k \in 1..Len(nodes) : nodes[k].updateFails

\* C19 (as claimed): whatever the node and its readings, sub-nodes whose
\* refresh fails included, the extraction returns a record.
C19_ExtractorsNeverRaise ==
    res # <<>> => ~IsRaised(res[1])

\* What the code gives: the extraction raises exactly when Update() raises on
\* a sub-node of a drive, or on a sub-node or nested sub-node of a motherboard;
\* no set of readings and no name makes it raise.
RaisesExactlyOnFailedUpdate ==
    res # <<>> =>
        (IsRaised(res[1]) <=>
            /\ hwIn[1].type \in {"Storage", "Motherboard"}
            /\ \/ AnyUpdateFails(hwIn[1].sub)
               \/ hwIn[1].type = "Motherboard" /\ AnyUpdateFails(SubNodesOf(hwIn[1].sub)))

---------------------------------------------------------------------------
\* The daemon loop applied to the tree state each cycle observes.  hwIn is the
\* sequence of tree states of the cycles so far, res the lines they wrote.

MaxObservedCycles == 3

\* hardware.Update() / subHardware.Update() of the refresh raises.
RECURSIVE AnyNodeFails(_)
AnyNodeFails(nodes) ==
    IF nodes = <<>> THEN FALSE
    ELSE Head(nodes).updateFails \/ AnyNodeFails(Tail(nodes))

RECURSIVE RefreshRaises(_)
RefreshRaises(tree) ==
    IF tree = <<>> THEN FALSE
    ELSE \/ Head(tree).updateFails
         \/ AnyNodeFails(Head(tree).sub)
         \/ RefreshRaises(Tail(tree))

\* OutputJson: the fields that are not null, by name (WhenWritingNull).
OutputJsonLine(data) ==
    [kind |-> "snapshot",
     fields |-> {<<f, Fields(data)[f][1]>> :
                    f \in {g \in DOMAIN Fields(data) : Fields(data)[g] # <<>>}}]

\* OutputError(ex.Message)
OutputErrorLine(message) == [kind |-> "error", error |-> message]

\* Mutant: the data object of the last snapshot is kept and written again.
CycleLineRemembered(tree) ==
    IF res # <<>> /\ res[Len(res)].kind = "snapshot" THEN res[Len(res)]
    ELSE IF RefreshRaises(tree) \/ IsRaised(ExtractData(tree))
         THEN OutputErrorLine("update")
         ELSE OutputJsonLine(ExtractData(tree))

\* The body of the loop: the line one cycle writes for the tree it observes.
CycleLine(tree) ==
    IF RefreshRaises(tree) THEN OutputErrorLine("update")
    ELSE IF IsRaised(ExtractData(tree)) THEN OutputErrorLine("update")
    ELSE OutputJsonLine(ExtractData(tree))

S_BrokenChip == <<"I", "T", "E", " ", "I", "T", "8", "6", "8", "6", "E">>

\* Root nodes of the observed trees: two GPUs, a drive, and a board whose
\* chip raises on Update().
CycleRoots ==
    {n \in RootNodes : n.type \in {"GpuNvidia", "GpuAmd"}} \cup
    { Node(S_GenericDisk, "Storage", <<>>, <<>>),
      Node(S_AsusPrime, "Motherboard", <<>>,
           << BrokenNode(S_BrokenChip, "SuperIO", <<>>, <<>>) >>) }

CycleTrees == {<<>>} \cup {<<n>> : n \in CycleRoots} \cup {<<n, m>> : n, m \in CycleRoots}

InitCycles ==
    /\ ProcIdle
    /\ hwIn = <<>>
    /\ res = <<>>

RunDaemonCycle ==
    /\ Len(res) < MaxObservedCycles
    /\ \E tree \in CycleTrees :
          /\ hwIn' = Append(hwIn, tree)
          /\ res' = Append(res, CycleLine(tree))
    /\ UNCHANGED procVars

NextCycles == RunDaemonCycle

SpecCycles == InitCycles /\ [][NextCycles]_vars

====
